---- MODULE Spec2Model ----
(***************************************************************************)
(* Narrative lifecycle tracking and multi-agent consensus of the           *)
(* SilverSentinel backend (backend/narrative/lifecycle_tracker.py,         *)
(* backend/multi_agent/orchestrator.py, backend/hybrid_engine.py).         *)
(*                                                                         *)
(* Numbers.  Python floats are modelled by exact scaled integers:          *)
(*   confidence           integer percent, 0..100        (0.75 is 75)      *)
(*   sentiment scores     integer hundredths, -100..100  (0.1 is 10)       *)
(*   price correlation    integer hundredths, -100..100  (0.8 is 80)       *)
(* A quotient that the code keeps as a float is kept as a record           *)
(* [num, den] and compared by cross-multiplication.  Where the code        *)
(* truncates a float with int(), the rounding of the float operations is   *)
(* kept as a choice (IntOfFloat).                                          *)
(***************************************************************************)
EXTENDS Integers, Sequences, FiniteSets, TLC

VARIABLES
    final_votes,      \* consensus functions: the vote list they are applied to
    consensus_level,  \* consensus functions: result of _calculate_consensus
    result,           \* consensus functions: result of _synthesize_consensus
    pc,               \* analyze_narrative_multi: position of the coroutine
    round1_votes,     \* analyze_narrative_multi: valid votes of Round 1
    round2_votes,     \* analyze_narrative_multi: valid votes of Round 2
    evaluations,      \* analyze_narrative_multi: agent.analyze calls per role
    rounds_run,       \* analyze_narrative_multi: rounds gathered so far
    panel_result,     \* analyze_narrative_multi: the returned dict
    narratives,       \* database: the committed rows of table narratives
    articles,         \* database: each narrative's articles of the last 48h
    price_corr,       \* database: mention/price correlation each narrative has
    phase_history,    \* LifecycleTracker.phase_history
    hybrid,           \* analyze_narrative_hybrid calls suspended on the panel
    hybrid_result,    \* how the last analyze_narrative_hybrid call ended
    now,              \* datetime.utcnow(), in operations elapsed
    detect_phase,     \* detect_phase_transition: narrative.phase of the call
    detect_metrics,   \* the metrics dict of the call
    detect_new_phase, \* what detect_phase_transition returned
    detect_strength,  \* what calculate_narrative_strength computed
    parse_lines,      \* _parse_response: the lines of the response
    parse_vote,       \* _parse_response: the AgentVoteResult returned
    loop_task,        \* event loop: the task that is running on it
    task_pc,          \* event loop: steps each task has executed
    task_ready,       \* event loop: tasks waiting for the loop
    passes,           \* event loop: tracking passes each task has finished
    groq_requests,    \* groq_limiter.requests: how many were recorded at each time
    groq_issued,      \* Groq API calls analyze_text has issued at each time
    clock,            \* time.time(), in seconds
    available,        \* which provider clients the orchestrator has
    text_call,        \* analyze_text: position and attempts of each caller's call
    calls_started,    \* analyze_text calls started so far
    raw_articles,     \* discover_narratives: the article dicts it is given
    discovery,        \* discover_narratives: what the call returned and ran
    recomputed,       \* calculate_narrative_strength of a narrative just built
    signal_rows,      \* generate_signal: the rows of table narratives it reads
    signal,           \* generate_signal: the Signal it returned
    generated,        \* generate_signal: calls made so far
    trading_signals,  \* database: the rows of table trading_signals
    signal_history,   \* TradingAgent.signal_history
    price_samples,    \* stability monitor: the prices of the window, by value
    stability,        \* what calculate_stability_score returned
    alert,            \* how generate_alert ended
    metric_rows,      \* calculate_metrics: the rows of table narratives
    metric_docs,      \* calculate_metrics: each narrative's articles, oldest first
    metrics_out,      \* calculate_metrics: the narrative and the dict returned
    week_mentions,    \* _calculate_price_correlation: articles of each day
    week_prices,      \* _calculate_price_correlation: price samples of each day
    correlation_out,  \* _calculate_price_correlation: what the call returned
    gather_pc,        \* analyze_narrative_multi: the gather the coroutine awaits
    role_pc,          \* the position of each role's agent.analyze task
    role_outcome,     \* what each role's task of the round ended with
    sent_inputs,      \* the prompt and system text each role sent in each round
    gathered_round1,  \* the valid votes _round_1_analysis returned
    levels,           \* the consensus levels computed, one per call
    rounds_result,    \* the dict analyze_narrative_multi returned
    refresh_clock,    \* datetime.now(), in minutes
    ticks,            \* how often time has advanced
    last_refresh,     \* ResourceManager.last_refresh
    refresh_calls,    \* refresh_data_sources calls made so far
    refresh_out       \* the last refresh_data_sources call and what it returned

cvars == <<final_votes, consensus_level, result>>
pvars == <<pc, round1_votes, round2_votes, evaluations, rounds_run, panel_result>>
lvars == <<narratives, articles, price_corr, phase_history, hybrid,
          hybrid_result, now>>
dvars == <<detect_phase, detect_metrics, detect_new_phase, detect_strength>>
avars == <<parse_lines, parse_vote>>
evars == <<loop_task, task_pc, task_ready, passes>>
rvars == <<groq_requests, groq_issued, clock, available, text_call,
          calls_started>>
kvars == <<raw_articles, discovery, recomputed>>
gvars == <<signal_rows, signal, generated, trading_signals, signal_history>>
svars == <<price_samples, stability, alert>>
\* the sections of the tracker, the panel and the services they call, and
\* the sections of the trading agent
bvars == <<cvars, pvars, lvars, dvars, avars, evars, rvars, kvars>>
mvars == <<metric_rows, metric_docs, metrics_out>>
qvars == <<week_mentions, week_prices, correlation_out>>
fvars == <<gather_pc, role_pc, role_outcome, sent_inputs, gathered_round1,
          levels, rounds_result>>
hvars == <<refresh_clock, ticks, last_refresh, refresh_calls, refresh_out>>
xvars == <<gvars, svars, mvars, qvars, fvars, hvars>>
vars == <<bvars, xvars>>

\* a result that has not been computed yet
Unset == [unset |-> TRUE]

(***************************************************************************)
(* Bounds of the model                                                     *)
(***************************************************************************)
MaxVotes == 3        \* longest vote list handed to the consensus functions
MaxMentions == 2     \* most articles a narrative has in one 24h window
MaxTime == 5         \* last instant of the clock in one behaviour
MaxHybridCalls == 1  \* hybrid analyses suspended on the panel at one time
MaxLines == 2        \* most lines of a response handed to _parse_response
MaxPasses == 2       \* tracking passes one task runs in one behaviour
MaxCallers == 2      \* coroutines that call analyze_text concurrently
MaxCalls == 3        \* analyze_text calls started in one behaviour
MaxArticles == 4      \* most article dicts handed to discover_narratives
MaxSamples == 5       \* most price samples of one value in the window
MaxDays == 3          \* days of the trailing week that carry data
MaxTicks == 3         \* times the resource manager's clock advances
MaxRefreshes == 3     \* calls of refresh_data_sources
MaxSignals == 102     \* calls of generate_signal in a row
MaxFailedSaves == 1   \* commits of _save_signal that fail
MaxClock == 2        \* last instant of time.time(), in steps of ClockStep

(***************************************************************************)
(* multi_agent/agents.py: AgentVoteResult and the fixed panel              *)
(***************************************************************************)
AgentNames == <<"fundamental", "sentiment", "technical", "risk", "macro">>

\* phase_vote is free text taken from the response ("unknown" stands for any
\* text that is not a lifecycle phase)
PhaseVotes == {"growth", "peak", "unknown"}
StrengthVotes == {50, 100}
ConfidenceVotes == {0, 30, 50}

\* the reasoning text of the i-th agent's response
ReasoningTexts == <<"supply deficit", "retail optimism", "price breakout",
                    "overcrowded trade", "rate cuts ahead">>

AgentVoteResult(name, phase, strength, conf, why) ==
    [agent_name |-> name, phase_vote |-> phase, strength_vote |-> strength,
     confidence |-> conf, reasoning |-> why]

\* the vote lists of length n over the vote domain, the i-th vote cast by the
\* i-th agent of the panel
VoteListsOfLen(n) ==
    { [i \in 1..n |-> AgentVoteResult(AgentNames[((i - 1) % 5) + 1],
                                      c[i][1], c[i][2], c[i][3],
                                      ReasoningTexts[((i - 1) % 5) + 1])] :
        c \in [1..n -> PhaseVotes \X StrengthVotes \X ConfidenceVotes] }

(***************************************************************************)
(* multi_agent/agents.py: BaseAnalyst._parse_response                      *)
(*                                                                         *)
(* A text is the sequence of its characters, a response the sequence of    *)
(* its lines.                                                              *)
(***************************************************************************)
LowerLetters == <<"a", "b", "c", "d", "e", "f", "g", "h", "i", "j", "k", "l", "m",
                  "n", "o", "p", "q", "r", "s", "t", "u", "v", "w", "x", "y", "z">>
UpperLetters == <<"A", "B", "C", "D", "E", "F", "G", "H", "I", "J", "K", "L", "M",
                  "N", "O", "P", "Q", "R", "S", "T", "U", "V", "W", "X", "Y", "Z">>
DigitChars == <<"0", "1", "2", "3", "4", "5", "6", "7", "8", "9">>

\* str.upper and str.lower, one character at a time
Upper(ch) ==
    IF \E i \in DOMAIN LowerLetters : LowerLetters[i] = ch
    THEN UpperLetters[CHOOSE i \in DOMAIN LowerLetters : LowerLetters[i] = ch]
    ELSE ch
Lower(ch) ==
    IF \E i \in DOMAIN UpperLetters : UpperLetters[i] = ch
    THEN LowerLetters[CHOOSE i \in DOMAIN UpperLetters : UpperLetters[i] = ch]
    ELSE ch
UpperText(text) == [i \in DOMAIN text |-> Upper(text[i])]
LowerText(text) == [i \in DOMAIN text |-> Lower(text[i])]

\* str.isdigit and the value of a digit
IsDigit(ch) == \E i \in DOMAIN DigitChars : DigitChars[i] = ch
DigitValue(ch) == (CHOOSE i \in DOMAIN DigitChars : DigitChars[i] = ch) - 1

\* str.strip
RECURSIVE StripLeft(_)
StripLeft(text) ==
    IF text # <<>> /\ Head(text) = " " THEN StripLeft(Tail(text)) ELSE text
RECURSIVE StripRight(_)
StripRight(text) ==
    IF text # <<>> /\ text[Len(text)] = " "
    THEN StripRight(SubSeq(text, 1, Len(text) - 1)) ELSE text
Strip(text) == StripRight(StripLeft(text))

\* pattern in text
Contains(text, pattern) ==
    \E i \in 1..(Len(text) - Len(pattern) + 1) :
        SubSeq(text, i, i + Len(pattern) - 1) = pattern

\* ":" in text, and text.split(":", 1)[1]
HasColon(text) == \E i \in DOMAIN text : text[i] = ":"
AfterColon(text) ==
    LET first == CHOOSE i \in DOMAIN text :
                     text[i] = ":" /\ \A j \in 1..(i - 1) : text[j] # ":"
    IN SubSeq(text, first + 1, Len(text))

\* text.replace(ch, "")
Without(text, ch) == SelectSeq(text, LAMBDA c : c # ch)

\* "".join(filter(str.isdigit, text)) and int() of it
Digits(text) == SelectSeq(text, IsDigit)
RECURSIVE IntOfDigits(_)
IntOfDigits(digits) ==
    IF digits = <<>> THEN 0
    ELSE 10 * IntOfDigits(SubSeq(digits, 1, Len(digits) - 1))
             + DigitValue(digits[Len(digits)])

\* the Python string of a text
RECURSIVE Str(_)
Str(text) == IF text = <<>> THEN "" ELSE Head(text) \o Str(Tail(text))

PhaseTag == <<"P", "H", "A", "S", "E", ":">>
StrengthTag == <<"S", "T", "R", "E", "N", "G", "T", "H", ":">>
ConfidenceTag == <<"C", "O", "N", "F", "I", "D", "E", "N", "C", "E", ":">>
ReasoningTag == <<"R", "E", "A", "S", "O", "N", "I", "N", "G", ":">>

\* the defaults of _parse_response
DefaultPhase == "growth"
DefaultStrength == 50
DefaultConfidence == 50
DefaultReasoning == "Unable to parse response"

ParseDefaults ==
    [phase |-> DefaultPhase, strength |-> DefaultStrength,
     confidence |-> DefaultConfidence, reasoning |-> DefaultReasoning]

\* confidence = conf_val / 100.0 if conf_val > 1 else conf_val, in percent
ConfidenceOf(conf_val) == IF conf_val > 1 THEN conf_val ELSE conf_val * 100

\* one turn of the loop over the lines
ParseLine(parsed, raw_line) ==
    LET line == Strip(raw_line)
        upper_line == UpperText(line)
    IN IF Contains(upper_line, PhaseTag)
       THEN [parsed EXCEPT !.phase =
                Str(Without(Without(LowerText(Strip(AfterColon(line))), "*"), "."))]
       ELSE IF Contains(upper_line, StrengthTag)
       THEN LET strength_str == Digits(AfterColon(line))
            IN [parsed EXCEPT !.strength =
                   IF strength_str # <<>> THEN IntOfDigits(strength_str)
                   ELSE DefaultStrength]
       ELSE IF Contains(upper_line, ConfidenceTag)
       THEN LET conf_str == Digits(AfterColon(line))
            IN [parsed EXCEPT !.confidence =
                   IF conf_str # <<>> THEN ConfidenceOf(IntOfDigits(conf_str))
                   ELSE DefaultConfidence]
       ELSE IF Contains(upper_line, ReasoningTag)
       THEN [parsed EXCEPT !.reasoning = Str(Without(Strip(AfterColon(line)), "*"))]
       ELSE parsed

RECURSIVE ParseLines(_, _)
ParseLines(parsed, lines) ==
    IF lines = <<>> THEN parsed
    ELSE ParseLines(ParseLine(parsed, Head(lines)), Tail(lines))

\* the last line without a colon that is longer than 20 characters, taken
\* as the reasoning when no REASONING line set one
FallbackReasoning(lines) ==
    LET usable == {i \in DOMAIN lines :
                      ~HasColon(lines[i]) /\ Len(Strip(lines[i])) > 20}
    IN IF usable = {} THEN DefaultReasoning
       ELSE Str(Strip(lines[CHOOSE i \in usable : \A j \in usable : j <= i]))

Max(a, b) == IF a >= b THEN a ELSE b
Clamp(lo, x, hi) == Max(lo, IF x <= hi THEN x ELSE hi)

\* _parse_response: lines is response.strip().split('\n')
ParseResponse(name, lines) ==
    LET parsed == ParseLines(ParseDefaults, lines)
        reasoning == IF parsed.reasoning = DefaultReasoning
                     THEN FallbackReasoning(lines) ELSE parsed.reasoning
    IN AgentVoteResult(name, parsed.phase, Clamp(0, parsed.strength, 100),
                       Clamp(0, parsed.confidence, 100), reasoning)

\* what _call_llm hands to _parse_response when the call failed: content ""
\* of the ModelResponse analyze_text returns when every provider failed, or
\* the text _call_llm returns when generate_text raised
EmptyContent == << <<>> >>
CallLlmError == <<<<"E", "R", "R", "O", "R", ":", " ", "U", "n", "a", "b", "l",
           "e", " ", "t", "o", " ", "g", "e", "t", " ", "L", "L", "M",
           " ", "r", "e", "s", "p", "o", "n", "s", "e">>>>

\* lines of responses
ResponseLines ==
    {<<>>,
     <<"P", "H", "A", "S", "E", ":", " ", "*", "*", "P", "e", "a",
           "k", "*", "*", ".">>,
     <<"S", "t", "r", "e", "n", "g", "t", "h", ":", " ", "8", "5">>,
     <<"C", "O", "N", "F", "I", "D", "E", "N", "C", "E", ":", " ",
           "9", "0", "%">>,
     <<"C", "O", "N", "F", "I", "D", "E", "N", "C", "E", ":", " ", "1">>,
     <<"C", "O", "N", "F", "I", "D", "E", "N", "C", "E", ":", " ",
           "0", ".", "5">>,
     <<"C", "o", "n", "f", "i", "d", "e", "n", "c", "e", ":", " ",
           "0", ".", "8", "5">>,
     <<"R", "E", "A", "S", "O", "N", "I", "N", "G", ":", " ", "*",
           "d", "e", "m", "a", "n", "d", "*", " ", "u", "p">>,
     <<"s", "i", "l", "v", "e", "r", " ", "s", "q", "u", "e", "e",
           "z", "e", "d", " ", "b", "y", " ", "d", "e", "m", "a", "n",
           "d">>,
     <<" ", " ", "n", "o", " ", "i", "d", "e", "a", " ">>,
     <<"E", "R", "R", "O", "R", ":", " ", "U", "n", "a", "b", "l",
           "e", " ", "t", "o", " ", "g", "e", "t", " ", "L", "L", "M",
           " ", "r", "e", "s", "p", "o", "n", "s", "e">>}

\* the responses of at most MaxLines lines; strip() leaves no blank line at
\* either end of a response of several lines
ParseResponsesOfLen(n) ==
    {lines \in [1..n -> ResponseLines] :
        n > 1 => (Strip(lines[1]) # <<>> /\ Strip(lines[n]) # <<>>)}

\* a response has none of the four tags
Unparsable(lines) ==
    \A i \in DOMAIN lines :
        \A tag \in {PhaseTag, StrengthTag, ConfidenceTag, ReasoningTag} :
            ~Contains(UpperText(Strip(lines[i])), tag)

(***************************************************************************)
(* SpecParse: _parse_response applied to every response                    *)
(***************************************************************************)
ParseInputs ==
    /\ \E n \in 1..MaxLines : parse_lines \in ParseResponsesOfLen(n)
    /\ parse_vote = Unset

ParseOff ==
    /\ parse_lines = <<>>
    /\ parse_vote = Unset

ParseResponseStep(name) ==
    /\ parse_vote = Unset
    /\ parse_vote' = ParseResponse(name, parse_lines)
    /\ UNCHANGED parse_lines

(***************************************************************************)
(* multi_agent/orchestrator.py: _calculate_consensus, _synthesize_consensus*)
(***************************************************************************)
RECURSIVE SumSeq(_)
SumSeq(s) == IF s = <<>> THEN 0 ELSE Head(s) + SumSeq(Tail(s))

Count(votes, phase) == Cardinality({i \in DOMAIN votes : votes[i].phase_vote = phase})

VotedPhases(votes) == {votes[i].phase_vote : i \in DOMAIN votes}

\* Counter(phase_votes).most_common(1)[0][1]
MostCommonCount(votes) ==
    CHOOSE c \in 1..Len(votes) :
        /\ \E p \in VotedPhases(votes) : Count(votes, p) = c
        /\ \A p \in VotedPhases(votes) : Count(votes, p) <= c

\* mutant of CalculateConsensus: the count is divided by the size of the
\* panel instead of the number of votes
CalculateConsensus_PanelSize(votes) ==
    IF votes = <<>> THEN [num |-> 0, den |-> 1]
    ELSE [num |-> MostCommonCount(votes), den |-> Len(AgentNames)]

\* _calculate_consensus: most_common_count / len(votes), 0.0 for no votes
CalculateConsensus(votes) ==
    IF votes = <<>> THEN [num |-> 0, den |-> 1]
    ELSE [num |-> MostCommonCount(votes), den |-> Len(votes)]

\* phase_weights[phase]: the summed confidence of the votes for phase
PhaseWeight(votes, phase) ==
    SumSeq([i \in DOMAIN votes |->
               IF votes[i].phase_vote = phase THEN votes[i].confidence ELSE 0])

\* position of a phase in the insertion-ordered dict phase_weights
FirstIndex(votes, phase) ==
    CHOOSE i \in DOMAIN votes :
        /\ votes[i].phase_vote = phase
        /\ \A j \in DOMAIN votes : votes[j].phase_vote = phase => i <= j

\* mutant of ConsensusPhase: the phase with the most votes, whatever the
\* confidence of its voters
ConsensusPhase_Plurality(votes) ==
    CHOOSE p \in VotedPhases(votes) :
        \A q \in VotedPhases(votes) :
            \/ Count(votes, q) < Count(votes, p)
            \/ /\ Count(votes, q) = Count(votes, p)
               /\ FirstIndex(votes, p) <= FirstIndex(votes, q)

\* max(phase_weights.items(), key=lambda x: x[1])[0]: the first key, in
\* insertion order, whose weight is the greatest
ConsensusPhase(votes) ==
    CHOOSE p \in VotedPhases(votes) :
        \A q \in VotedPhases(votes) :
            \/ PhaseWeight(votes, q) < PhaseWeight(votes, p)
            \/ /\ PhaseWeight(votes, q) = PhaseWeight(votes, p)
               /\ FirstIndex(votes, p) <= FirstIndex(votes, q)

\* sum(v.confidence for v in votes)
SumConfidence(votes) == SumSeq([i \in DOMAIN votes |-> votes[i].confidence])

\* sum(v.strength_vote * v.confidence for v in votes)
SumStrengthTimesConfidence(votes) ==
    SumSeq([i \in DOMAIN votes |-> votes[i].strength_vote * votes[i].confidence])

\* int(x) for a float x >= 0 that the code computes with a few float
\* operations and whose exact value is num/den.  Every float operation
\* rounds, so x is within rounding error of num/den: int(x) is the whole part
\* of num/den, except that when num/den is a whole number q >= 1 the float may
\* have come out just below q, and int() then gives q - 1 (rounds_below).
\* With confidences 0.3, 0.3, 0.5 and strengths 50, 50, 50 the expression of
\* line 187 is 49.99999999999999.
IntOfFloat(num, den, rounds_below) ==
    IF rounds_below /\ num > 0 /\ num % den = 0
    THEN (num \div den) - 1
    ELSE num \div den

\* the outcomes of the rounding that differ for int(num/den)
Roundings(num, den) ==
    IF num > 0 /\ num % den = 0 THEN BOOLEAN ELSE {FALSE}

\* the roundings of weighted_strength over the votes
StrengthRoundings(votes) ==
    IF SumConfidence(votes) > 0
    THEN Roundings(SumStrengthTimesConfidence(votes), SumConfidence(votes))
    ELSE {FALSE}

\* int(weighted_strength): sum(strength * confidence) / total_weight, or 50
WeightedStrength(votes, rounds_below) ==
    LET total_weight == SumConfidence(votes)
    IN IF total_weight > 0
       THEN IntOfFloat(SumStrengthTimesConfidence(votes), total_weight, rounds_below)
       ELSE 50

\* mutant of OverallConfidence: the mean confidence scaled by the consensus
\* level of the votes
OverallConfidence_TimesConsensus(votes) ==
    [num |-> SumConfidence(votes) * MostCommonCount(votes),
     den |-> Len(votes) * Len(votes)]

\* overall_confidence = sum(v.confidence for v in votes) / len(votes), kept as
\* the quotient num/den of percent values
OverallConfidence(votes) ==
    [num |-> SumConfidence(votes), den |-> Len(votes)]

\* mutant of MinorityOpinions: every vote is listed, agreeing or not
MinorityOpinions_EveryVote(votes, consensus_phase) ==
    [i \in 1..Len(votes) |->
        [agent |-> votes[i].agent_name, phase |-> votes[i].phase_vote,
         strength |-> votes[i].strength_vote, reasoning |-> votes[i].reasoning]]

\* minority_opinions: one entry, in vote order, for every vote whose
\* phase_vote is not the consensus phase
MinorityOpinions(votes, consensus_phase) ==
    LET Keep(v) == v.phase_vote # consensus_phase
        Entry(v) == [agent |-> v.agent_name, phase |-> v.phase_vote,
                     strength |-> v.strength_vote, reasoning |-> v.reasoning]
        dissent == SelectSeq(votes, Keep)
    IN [i \in 1..Len(dissent) |-> Entry(dissent[i])]

SynthesizeConsensus(votes, rounds_below) ==
    IF votes = <<>>
    THEN [consensus_lifecycle_phase |-> "growth",
          consensus_strength_score |-> 50,
          overall_confidence |-> [num |-> 50, den |-> 1],
          agent_votes |-> <<>>,
          minority_opinions |-> <<>>]
    ELSE [consensus_lifecycle_phase |-> ConsensusPhase(votes),
          consensus_strength_score |-> WeightedStrength(votes, rounds_below),
          overall_confidence |-> OverallConfidence(votes),
          agent_votes |-> votes,
          minority_opinions |-> MinorityOpinions(votes, ConsensusPhase(votes)),
          num_agents |-> Len(votes)]

(***************************************************************************)
(* SpecConsensus: the two consensus functions applied to every vote list   *)
(***************************************************************************)
ConsensusInputs ==
    /\ \E n \in 0..MaxVotes : final_votes \in VoteListsOfLen(n)
    /\ consensus_level = Unset
    /\ result = Unset

CalculateConsensusStep ==
    /\ consensus_level = Unset
    /\ consensus_level' = CalculateConsensus(final_votes)
    /\ UNCHANGED <<final_votes, result>>

SynthesizeConsensusStep(rounds_below) ==
    /\ result = Unset
    /\ result' = SynthesizeConsensus(final_votes, rounds_below)
    /\ UNCHANGED <<final_votes, consensus_level>>

NextConsensus ==
    /\ \/ CalculateConsensusStep
       \/ \E rounds_below \in StrengthRoundings(final_votes) :
              SynthesizeConsensusStep(rounds_below)
    /\ UNCHANGED <<pvars, lvars, dvars, avars, evars, rvars, kvars, xvars>>

(***************************************************************************)
(* multi_agent/orchestrator.py: analyze_narrative_multi                    *)
(***************************************************************************)
Roles == 1..Len(AgentNames)

\* what awaiting one role's agent.analyze task yields: an AgentVoteResult
\* parsed from the response, or the exception the task raised
Raised == [exception |-> TRUE]

\* the responses a role's LLM call comes back with: two that follow the
\* response format, and the empty content of a failed call
PeakResponse ==
    <<<<"P", "H", "A", "S", "E", ":", " ", "P", "e", "a", "k">>,
      <<"S", "T", "R", "E", "N", "G", "T", "H", ":", " ", "1", "0", "0">>,
      <<"C", "O", "N", "F", "I", "D", "E", "N", "C", "E", ":", " ",
            "9", "0", "%">>,
      <<"R", "E", "A", "S", "O", "N", "I", "N", "G", ":", " ", "r",
            "e", "c", "o", "r", "d", " ", "d", "e", "m", "a", "n", "d">>>>
UnknownResponse ==
    <<<<"P", "H", "A", "S", "E", ":", " ", "u", "n", "k", "n", "o",
            "w", "n">>,
      <<"S", "T", "R", "E", "N", "G", "T", "H", ":", " ", "0">>,
      <<"C", "O", "N", "F", "I", "D", "E", "N", "C", "E", ":", " ",
            "3", "0">>,
      <<"R", "E", "A", "S", "O", "N", "I", "N", "G", ":", " ", "n",
            "o", " ", "d", "a", "t", "a">>>>
PanelResponses == {PeakResponse, UnknownResponse, EmptyContent}

\* the task raised: there is no response
RaiseChoice == <<>>

\* mutant of PanelOutcomes: every analyst was constructed with the name of
\* the first one
PanelOutcomes_OneName ==
    [role \in Roles |->
        [lines \in PanelResponses |-> ParseResponse(AgentNames[1], lines)]]

\* agent.analyze of each role on each response
PanelOutcomes ==
    [role \in Roles |->
        [lines \in PanelResponses |-> ParseResponse(AgentNames[role], lines)]]

RoleOutcome(role, c) ==
    IF c = RaiseChoice THEN Raised ELSE PanelOutcomes[role][c]

\* asyncio.gather(*tasks, return_exceptions=True): one outcome per role, in
\* the order of self.agents
GatherOutcomes ==
    { [r \in Roles |-> RoleOutcome(r, c[r])] :
        c \in [Roles -> PanelResponses \cup {RaiseChoice}] }

\* valid_votes: the outcomes that are AgentVoteResult, in order
IsVote(o) == o # Raised
ValidVotes(gathered) == SelectSeq(gathered, IsVote)

\* mutant of NeedsDebate: the threshold test written as <=
NeedsDebate_AtMost(votes) ==
    LET level == CalculateConsensus(votes)
    IN 10 * level.num <= 6 * level.den

\* if consensus_level < 0.6
NeedsDebate(votes) ==
    LET level == CalculateConsensus(votes)
    IN 10 * level.num < 6 * level.den

PanelIdle ==
    /\ pc = "idle"
    /\ round1_votes = <<>>
    /\ round2_votes = <<>>
    /\ evaluations = [r \in Roles |-> 0]
    /\ rounds_run = 0
    /\ panel_result = Unset

\* a caller invokes analyze_narrative_multi; the coroutine runs up to the
\* await of Round 1's gather
StartAnalysis ==
    /\ pc = "idle"
    /\ pc' = "round1"
    /\ UNCHANGED <<round1_votes, round2_votes, evaluations, rounds_run, panel_result>>

\* Round 1's gather completes: _round_1_analysis returns, the consensus level
\* is computed, and the coroutine either starts Round 2 or synthesizes
Round1Complete(gathered, rounds_below) ==
    /\ pc = "round1"
    /\ round1_votes' = ValidVotes(gathered)
    /\ evaluations' = [r \in Roles |-> evaluations[r] + 1]
    /\ rounds_run' = rounds_run + 1
    /\ IF NeedsDebate(round1_votes')
       THEN /\ pc' = "round2"
            /\ UNCHANGED <<round2_votes, panel_result>>
       ELSE /\ pc' = "done"
            /\ panel_result' = SynthesizeConsensus(round1_votes', rounds_below)
            /\ UNCHANGED round2_votes

\* Round 2's gather completes: _round_2_debate returns and its votes are
\* synthesized
Round2Complete(gathered, rounds_below) ==
    /\ pc = "round2"
    /\ round2_votes' = ValidVotes(gathered)
    /\ evaluations' = [r \in Roles |-> evaluations[r] + 1]
    /\ rounds_run' = rounds_run + 1
    /\ panel_result' = SynthesizeConsensus(round2_votes', rounds_below)
    /\ pc' = "done"
    /\ UNCHANGED round1_votes

\* the result is returned to the caller and the coroutine's frame is gone
ReturnResult ==
    /\ pc = "done"
    /\ pc' = "idle"
    /\ round1_votes' = <<>>
    /\ round2_votes' = <<>>
    /\ evaluations' = [r \in Roles |-> 0]
    /\ rounds_run' = 0
    /\ panel_result' = Unset

(***************************************************************************)
(* database.py: Narrative rows; narrative/lifecycle_tracker.py             *)
(*                                                                         *)
(* A row keeps the columns the lifecycle writes: phase, strength,          *)
(* sentiment, death_date, last_updated.  sentiment is kept in units of     *)
(* 1/(100 * SentimentScale), so that the mean of up to MaxMentions scores  *)
(* given in hundredths is an integer.                                      *)
(***************************************************************************)
NarrativeIds == {1, 2}

Phases == {"birth", "growth", "peak", "reversal", "death"}

NoDate == 0          \* death_date IS NULL
NoPhase == "None"    \* detect_phase_transition returned None

RECURSIVE Factorial(_)
Factorial(n) == IF n <= 1 THEN 1 ELSE n * Factorial(n - 1)

SentimentScale == Factorial(MaxMentions)

\* VADER compound scores of articles, in hundredths
Scores == {-50, 50}
\* values of _calculate_price_correlation, in hundredths
CorrelationValues == {0, 81}

\* config.narrative
BirthToGrowthVelocityThreshold == 50
GrowthToPeakCorrelationThreshold == 80
MinStrengthForConflict == 40
\* config.hybrid
AgentWeight == 6
MetricsWeight == 4
HighConfidenceThreshold == 75

Min(a, b) == IF a < b THEN a ELSE b
Abs(a) == IF a < 0 THEN -a ELSE a

\* sentiment_analyzer.analyze_narrative_sentiment over the narrative's
\* articles of the last 24h, ordered by published_at
AnalyzeNarrativeSentiment(scores) ==
    IF scores = <<>>
    THEN [current_sentiment |-> 0, declining |-> FALSE]
    ELSE LET n == Len(scores)
             mid_point == n \div 2
             first_half == SumSeq(SubSeq(scores, 1, mid_point))
             second_half == SumSeq(SubSeq(scores, mid_point + 1, n))
         IN [current_sentiment |-> (SumSeq(scores) * SentimentScale) \div n,
             \* sentiment_change = second_half - first_half, tested < -0.1
             declining |-> /\ mid_point > 0
                           /\ second_half * mid_point - first_half * (n - mid_point)
                                  < (-10) * mid_point * (n - mid_point)]

\* _calculate_velocity: increase_ratio as the quotient num/den
CalculateVelocity(arts) ==
    LET recent_mentions == Len(arts.recent)
        previous_mentions == arts.previous
    IN [recent_count |-> recent_mentions,
        previous_count |-> previous_mentions,
        increase_ratio |->
            IF previous_mentions > 0
            THEN [num |-> recent_mentions - previous_mentions, den |-> previous_mentions]
            ELSE [num |-> IF recent_mentions > 0 THEN 1 ELSE 0, den |-> 1]]

\* mutant of AreOpposing: the sentiments at the edge of the dead-zone count
AreOpposing_NoDeadZone(n1, n2) ==
    \/ n1.sentiment >= 10 * SentimentScale /\ n2.sentiment <= (-10) * SentimentScale
    \/ n1.sentiment <= (-10) * SentimentScale /\ n2.sentiment >= 10 * SentimentScale

\* _are_opposing
AreOpposing(n1, n2) ==
    \/ n1.sentiment > 10 * SentimentScale /\ n2.sentiment < (-10) * SentimentScale
    \/ n1.sentiment < (-10) * SentimentScale /\ n2.sentiment > 10 * SentimentScale

\* _detect_conflicts_for_narrative: the other rows of the database that are
\* in growth or peak, strong enough, and of opposing sentiment
DetectConflicts(narrative, id, db) ==
    { other \in NarrativeIds \ {id} :
        /\ db[other].phase \in {"growth", "peak"}
        /\ db[other].strength >= MinStrengthForConflict
        /\ AreOpposing(narrative, db[other]) }

\* calculate_metrics for the in-memory object narrative with primary key id
CalculateMetrics(narrative, id, db, arts, corr) ==
    LET velocity == CalculateVelocity(arts[id])
    IN [velocity_increase |-> velocity.increase_ratio,
        price_correlation |-> corr[id],
        sentiment_decline |-> AnalyzeNarrativeSentiment(arts[id].recent).declining,
        conflicting_narratives_detected |-> DetectConflicts(narrative, id, db) # {},
        mentions_48h |-> velocity.recent_count + velocity.previous_count,
        recent_count |-> velocity.recent_count]

\* the test of the BIRTH row: velocity_increase >= threshold
VelocityAboveThreshold_AtLeast(metrics) ==
    100 * metrics.velocity_increase.num
        >= BirthToGrowthVelocityThreshold * metrics.velocity_increase.den

\* the test of the BIRTH row: velocity_increase > threshold
VelocityAboveThreshold(metrics) ==
    100 * metrics.velocity_increase.num
        > BirthToGrowthVelocityThreshold * metrics.velocity_increase.den

\* mutant of CorrelationAboveThreshold: price_correlation >= threshold
CorrelationAboveThreshold_AtLeast(metrics) ==
    metrics.price_correlation >= GrowthToPeakCorrelationThreshold

\* the test of the GROWTH row: price_correlation > threshold
CorrelationAboveThreshold(metrics) ==
    metrics.price_correlation > GrowthToPeakCorrelationThreshold

\* detect_phase_transition with a DEATH row that restarts the lifecycle
DetectPhaseTransition_DeathRestarts(phase, metrics) ==
    CASE phase = "birth" ->
             IF VelocityAboveThreshold(metrics) THEN "growth" ELSE NoPhase
      [] phase = "growth" ->
             IF CorrelationAboveThreshold(metrics) THEN "peak" ELSE NoPhase
      [] phase = "peak" ->
             IF metrics.sentiment_decline \/ metrics.conflicting_narratives_detected
             THEN "reversal" ELSE NoPhase
      [] phase = "reversal" ->
             IF metrics.mentions_48h = 0 THEN "death" ELSE NoPhase
      [] OTHER ->
             IF VelocityAboveThreshold(metrics) THEN "birth" ELSE NoPhase

\* detect_phase_transition, given the metrics calculate_metrics returned
DetectPhaseTransition(phase, metrics) ==
    CASE phase = "birth" ->
             IF VelocityAboveThreshold(metrics) THEN "growth" ELSE NoPhase
      [] phase = "growth" ->
             IF CorrelationAboveThreshold(metrics) THEN "peak" ELSE NoPhase
      [] phase = "peak" ->
             IF metrics.sentiment_decline \/ metrics.conflicting_narratives_detected
             THEN "reversal" ELSE NoPhase
      [] phase = "reversal" ->
             IF metrics.mentions_48h = 0 THEN "death" ELSE NoPhase
      [] OTHER -> NoPhase

\* calculate_narrative_strength.  With r articles in the last 24h and
\* correlation c (hundredths) the weighted sum is
\*   0.3 * min(r/24*10, 100) + 0.25 * min(5r, 100) + 0.25 * |c| + 0.2 * 50
\* which is (min(r, 240) + min(10r, 200) + 2|c| + 80) / 8.
CalculateNarrativeStrength(metrics) ==
    LET r == metrics.recent_count
        strength8 == Min(r, 240) + Min(10 * r, 200)
                         + 2 * Abs(metrics.price_correlation) + 80
    IN Min(strength8 \div 8, 100)

\* update_narrative_phase up to session.add: the assignments to the object
\* and the entry appended to phase_history
\* mutant of UpdateNarrativePhase: the transition is applied and, when it
\* ends in GROWTH, PEAK or REVERSAL, the next one with it
UpdateNarrativePhase_Twice(narrative, new_phase, t) ==
    [narrative EXCEPT !.phase = IF new_phase = "growth" THEN "peak"
                                ELSE IF new_phase = "peak" THEN "reversal"
                                ELSE IF new_phase = "reversal" THEN "death"
                                ELSE new_phase,
                      !.last_updated = t,
                      !.death_date = IF new_phase \in {"reversal", "death"}
                                     THEN t ELSE @]

\* update_narrative_phase: the columns it sets
UpdateNarrativePhase(narrative, new_phase, t) ==
    [narrative EXCEPT !.phase = new_phase,
                      !.last_updated = t,
                      !.death_date = IF new_phase = "death" THEN t ELSE @]

HistoryEntry(narrative, new_phase, t) ==
    [from_phase |-> narrative.phase, to_phase |-> new_phase, timestamp |-> t]

\* The loop of track_all_narratives from the narrative ids[1] on.  st.db are
\* the committed rows, st.session the objects of the pass's own session,
\* st.history is phase_history, st.raised tells that the pass was left by an
\* exception.  update_narrative_phase adds the object, which belongs to the
\* session of track_all_narratives, to a session of its own (get_session
\* builds a new Session on every call).  SQLAlchemy's Session.add refuses an
\* object that is attached to another live session (InvalidRequestError);
\* the ORM is not part of the source, so both outcomes are kept and
\* orm_accepts is the one taken: when the add is accepted the inner commit
\* stores the object, when it is refused the exception leaves
\* track_all_narratives before its own commit.
RECURSIVE TrackFrom(_, _, _, _, _, _)
TrackFrom(ids, st, arts, corr, t, orm_accepts) ==
    IF ids = <<>> \/ st.raised THEN st
    ELSE LET id == Head(ids)
             loaded == st.session[id]
             \* new_strength and current_sentiment are computed before the
             \* object is changed; conflicts compare the stored sentiment
             strength_metrics == CalculateMetrics(loaded, id, st.db, arts, corr)
             updated == [loaded EXCEPT
                            !.strength = CalculateNarrativeStrength(strength_metrics),
                            !.sentiment =
                                AnalyzeNarrativeSentiment(arts[id].recent).current_sentiment]
             metrics == CalculateMetrics(updated, id, st.db, arts, corr)
             new_phase == DetectPhaseTransition(updated.phase, metrics)
         IN IF new_phase # NoPhase
            THEN LET moved == UpdateNarrativePhase(updated, new_phase, t)
                     logged == [st.history EXCEPT
                                   ![id] = Append(@, HistoryEntry(updated, new_phase, t))]
                 IN IF orm_accepts
                    THEN TrackFrom(Tail(ids),
                                   [st EXCEPT !.session[id] = moved,
                                              !.db[id] = moved,
                                              !.history = logged],
                                   arts, corr, t, orm_accepts)
                    ELSE [st EXCEPT !.session[id] = moved,
                                    !.history = logged,
                                    !.raised = TRUE]
            ELSE TrackFrom(Tail(ids),
                           [st EXCEPT !.session[id] = [updated EXCEPT !.last_updated = t]],
                           arts, corr, t, orm_accepts)

\* the ids of a set of narratives in the order of the query (by primary key)
RECURSIVE InOrder(_)
InOrder(ids) ==
    IF ids = {} THEN <<>>
    ELSE LET least == CHOOSE i \in ids : \A j \in ids : i <= j
         IN <<least>> \o InOrder(ids \ {least})

\* mutant of ActiveNarratives: the query has no filter on the phase
ActiveNarratives_All(db) == {id \in NarrativeIds : db[id].phase = db[id].phase}

\* session.query(Narrative).filter(Narrative.phase != 'death')
ActiveNarratives(db) == {id \in NarrativeIds : db[id].phase # "death"}

\* the state in which a call of track_all_narratives ends
TrackAllResult(db, history, arts, corr, t, orm_accepts) ==
    TrackFrom(InOrder(ActiveNarratives(db)),
              [db |-> db, session |-> db, history |-> history, raised |-> FALSE],
              arts, corr, t, orm_accepts)

\* track_all_narratives: a whole pass (the coroutine never awaits).  The
\* final session.commit() stores every object of the pass; a pass left by an
\* exception closes its session without a commit.
TrackAllNarratives(orm_accepts) ==
    /\ now < MaxTime
    /\ LET st == TrackAllResult(narratives, phase_history, articles, price_corr,
                                now, orm_accepts)
       IN /\ narratives' = IF st.raised THEN st.db
                           ELSE [id \in NarrativeIds |->
                                    IF id \in ActiveNarratives(narratives)
                                    THEN st.session[id] ELSE st.db[id]]
          /\ phase_history' = st.history
    /\ now' = now + 1
    /\ UNCHANGED <<articles, price_corr, hybrid, hybrid_result>>

(***************************************************************************)
(* hybrid_engine.py: analyze_narrative_hybrid                              *)
(***************************************************************************)
Idle == [idle |-> TRUE]

\* the final votes of the panel run a hybrid analysis awaits: no valid vote,
\* five votes (one per agent) that agree, or the five votes of a panel whose
\* calls all failed
HybridVoteChoices ==
    {<<"birth", 0, 75>>, <<"growth", 50, 74>>, <<"peak", 100, 100>>,
     <<"death", 100, 90>>, <<"unknown", 50, 90>>}

HybridPanelVotes ==
    {<<>>, [r \in Roles |-> PanelOutcomes[r][EmptyContent]]}
        \cup { [r \in Roles |->
                   AgentVoteResult(AgentNames[r], c[1], c[2], c[3], "reasoning")] :
                 c \in HybridVoteChoices }

\* analyze_narrative_hybrid up to the await of analyze_narrative_multi: the
\* row is loaded into the call's session and the metrics, the metric
\* strength and the metric phase are computed
HybridBegin(id) ==
    /\ now < MaxTime
    /\ hybrid[id] = Idle
    /\ Cardinality({other \in NarrativeIds : hybrid[other] # Idle}) < MaxHybridCalls
    /\ LET narrative == narratives[id]
           metrics == CalculateMetrics(narrative, id, narratives, articles, price_corr)
       IN hybrid' = [hybrid EXCEPT ![id] =
              [narrative |-> narrative,
               strength_metrics |-> CalculateNarrativeStrength(metrics),
               deterministic_phase |-> DetectPhaseTransition(narrative.phase, metrics)]]
    /\ now' = now + 1
    /\ UNCHANGED <<narratives, articles, price_corr, phase_history, hybrid_result>>

\* mutant of HybridDecision: the panel is trusted only strictly above the
\* threshold
HybridDecision_StrictlyAbove(agent_result, call) ==
    IF agent_result.overall_confidence.num * 100
           > HighConfidenceThreshold * 100 * agent_result.overall_confidence.den
    THEN [phase |-> agent_result.consensus_lifecycle_phase,
          confidence |-> agent_result.overall_confidence,
          analysis_method |-> "multi-agent"]
    ELSE [phase |-> IF call.deterministic_phase # NoPhase
                    THEN call.deterministic_phase ELSE call.narrative.phase,
          confidence |-> [num |-> 65, den |-> 1],
          analysis_method |-> "metrics-fallback"]

\* Step 3: the phase, confidence and method of the result
HybridDecision(agent_result, call) ==
    IF agent_result.overall_confidence.num * 100
           >= HighConfidenceThreshold * 100 * agent_result.overall_confidence.den
    THEN [phase |-> agent_result.consensus_lifecycle_phase,
          confidence |-> agent_result.overall_confidence,
          analysis_method |-> "multi-agent"]
    ELSE [phase |-> IF call.deterministic_phase # NoPhase
                    THEN call.deterministic_phase ELSE call.narrative.phase,
          confidence |-> [num |-> 65, den |-> 1],
          analysis_method |-> "metrics-fallback"]

\* the blend with weights taken as whole numbers
HybridStrength_Unweighted(agent_result, call, rounds_below) ==
    IntOfFloat(AgentWeight * agent_result.consensus_strength_score
                   + MetricsWeight * call.strength_metrics, 1, rounds_below)

\* final_strength = int(agent_w * agent_strength + metrics_w * strength_metrics),
\* the weights being AgentWeight/10 and MetricsWeight/10
HybridStrength(agent_result, call, rounds_below) ==
    IntOfFloat(AgentWeight * agent_result.consensus_strength_score
                   + MetricsWeight * call.strength_metrics, 10, rounds_below)

\* Step 5: the UPDATE that session.commit() sends for the object loaded
\* before the await: it sets the columns whose value differs from the loaded
\* one, and last_updated (onupdate) with them
HybridWriteBack(row, call, final_phase, final_strength, t, touched) ==
    LET loaded == call.narrative
        changed == final_phase # loaded.phase \/ final_strength # loaded.strength
    IN [row EXCEPT
           !.phase = IF final_phase # loaded.phase THEN final_phase ELSE @,
           !.strength = IF final_strength # loaded.strength THEN final_strength ELSE @,
           !.last_updated = IF changed \/ touched THEN t ELSE @]

\* the confidence above which the explanation speaks of AI consensus, in
\* percent
ExplanationThreshold == 75

\* _generate_hybrid_explanation: the decision and the analysis method the
\* text names (the summaries of metrics and votes left out)
GenerateHybridExplanation(final_phase, final_confidence) ==
    [decision |-> final_phase,
     analysis_method |->
         IF final_confidence.num > ExplanationThreshold * final_confidence.den
         THEN "AI consensus (high confidence)"
         ELSE "Metrics fallback (low agent agreement)"]

\* mutant of HybridResult: the strength of the result is the panel's
HybridResult_PanelStrength(id, agent_result, decision, final_strength) ==
    [narrative_id |-> id,
     consensus_lifecycle_phase |-> decision.phase,
     consensus_strength_score |-> agent_result.consensus_strength_score,
     overall_confidence |-> decision.confidence,
     num_agents |-> agent_result.num_agents,
     analysis_method |-> decision.analysis_method,
     agent_votes |-> agent_result.agent_votes,
     minority_opinions |-> agent_result.minority_opinions,
     explanation |-> GenerateHybridExplanation(decision.phase, decision.confidence)]

\* the dict analyze_narrative_hybrid returns (metrics and timestamp left
\* out)
HybridResult(id, agent_result, decision, final_strength) ==
    [narrative_id |-> id,
     consensus_lifecycle_phase |-> decision.phase,
     consensus_strength_score |-> final_strength,
     overall_confidence |-> decision.confidence,
     num_agents |-> agent_result.num_agents,
     analysis_method |-> decision.analysis_method,
     agent_votes |-> agent_result.agent_votes,
     minority_opinions |-> agent_result.minority_opinions,
     explanation |-> GenerateHybridExplanation(decision.phase, decision.confidence)]

\* the call left by an exception
HybridRaised(id, exception) == [narrative_id |-> id, exception |-> exception]

\* mutant of ValidPhase: the table accepts any text as a phase
ValidPhase_AnyText(phase) == phase = phase

\* the CHECK constraint valid_phase of the table narratives
ValidPhase(phase) == phase \in Phases

\* analyze_narrative_hybrid from the return of the panel to the end.  With
\* no valid vote the panel's result has no key num_agents and
\* _generate_hybrid_explanation raises KeyError before anything is written;
\* a phase outside the CHECK constraint valid_phase makes the commit fail.
\* touched: whether mention_velocity or price_correlation, columns that are
\* not modelled, differ from the loaded values.  synth_below, blend_below:
\* the rounding of the two truncated floats (IntOfFloat).
HybridFinish(id, votes, touched, synth_below, blend_below) ==
    /\ now < MaxTime
    /\ hybrid[id] # Idle
    /\ \E agent_result \in {SynthesizeConsensus(votes, synth_below)} :
       \E decision \in {HybridDecision(agent_result, hybrid[id])} :
           LET call == hybrid[id]
               final_strength == HybridStrength(agent_result, call, blend_below)
           IN IF votes = <<>> \/ ~ValidPhase(decision.phase)
              THEN /\ narratives' = narratives
                   /\ hybrid_result' = HybridRaised(id,
                           IF votes = <<>> THEN "KeyError" ELSE "IntegrityError")
              ELSE /\ narratives' = [narratives EXCEPT ![id] =
                           HybridWriteBack(@, call, decision.phase,
                                           final_strength, now, touched)]
                   /\ hybrid_result' = HybridResult(id, agent_result, decision,
                                                    final_strength)
    /\ hybrid' = [hybrid EXCEPT ![id] = Idle]
    /\ now' = now + 1
    /\ UNCHANGED <<articles, price_corr, phase_history>>

(***************************************************************************)
(* The database's environment: collectors store articles, time passes      *)
(***************************************************************************)
\* an article assigned to the narrative is published (its score is set by
\* the sentiment analyzer when it is first read)
PublishArticle(id, score) ==
    /\ now < MaxTime
    /\ Len(articles[id].recent) < MaxMentions
    /\ articles' = [articles EXCEPT ![id].recent = Append(@, score)]
    /\ now' = now + 1
    /\ UNCHANGED <<narratives, price_corr, phase_history, hybrid, hybrid_result>>

\* 24 hours pass: the last day's articles are now 24 to 48 hours old
DayPasses ==
    /\ now < MaxTime
    /\ articles' = [id \in NarrativeIds |->
                       [recent |-> <<>>, previous |-> Len(articles[id].recent)]]
    /\ now' = now + 1
    /\ UNCHANGED <<narratives, price_corr, phase_history, hybrid, hybrid_result>>

\* prices and mentions of the last 7 days change the correlation
PriceCorrelationChanges(id, c) ==
    /\ now < MaxTime
    /\ price_corr[id] # c
    /\ price_corr' = [price_corr EXCEPT ![id] = c]
    /\ now' = now + 1
    /\ UNCHANGED <<narratives, articles, phase_history, hybrid, hybrid_result>>

\* rows as seed_demo_data.py and save_narratives store them
InitialStrength == 50
InitialSentiments == {-60 * SentimentScale, 60 * SentimentScale}
InitialTime == 1

InitialRows ==
    { [phase |-> p, strength |-> InitialStrength, sentiment |-> s,
       death_date |-> IF p = "death" THEN InitialTime ELSE NoDate,
       last_updated |-> InitialTime] :
        p \in Phases, s \in InitialSentiments }

LifecycleInit ==
    /\ narratives \in [NarrativeIds -> InitialRows]
    /\ articles = [id \in NarrativeIds |-> [recent |-> <<>>, previous |-> 0]]
    /\ price_corr = [id \in NarrativeIds |-> 0]
    /\ phase_history = [id \in NarrativeIds |-> <<>>]
    /\ hybrid = [id \in NarrativeIds |-> Idle]
    /\ hybrid_result = Unset
    /\ now = InitialTime + 1

LifecycleOff ==
    /\ narratives = [id \in NarrativeIds |->
                        [phase |-> "birth", strength |-> 0, sentiment |-> 0,
                         death_date |-> NoDate, last_updated |-> InitialTime]]
    /\ articles = [id \in NarrativeIds |-> [recent |-> <<>>, previous |-> 0]]
    /\ price_corr = [id \in NarrativeIds |-> 0]
    /\ phase_history = [id \in NarrativeIds |-> <<>>]
    /\ hybrid = [id \in NarrativeIds |-> Idle]
    /\ hybrid_result = Unset
    /\ now = InitialTime + 1

(***************************************************************************)
(* detect_phase_transition and calculate_narrative_strength as functions   *)
(* of the narrative's phase and of the metrics calculate_metrics returns   *)
(***************************************************************************)
Pending == "pending"     \* the call has not returned
NoStrength == -1

\* article counts of the last 24h and of the 24h before
DetectRecentCounts == {0, 3, 8, 13}
DetectPreviousCounts == {0, 2, 5, 10}
DetectCorrelations == {0, 80, 81}

\* the dict calculate_metrics builds from the counts and the other inputs
MetricsOf(recent, previous, corr, decline, conflicts) ==
    LET velocity == CalculateVelocity([recent |-> [i \in 1..recent |-> 0],
                                       previous |-> previous])
    IN [velocity_increase |-> velocity.increase_ratio,
        price_correlation |-> corr,
        sentiment_decline |-> decline,
        conflicting_narratives_detected |-> conflicts,
        mentions_48h |-> recent + previous,
        recent_count |-> recent]

DetectMetrics ==
    { MetricsOf(r, p, c, d, k) :
        r \in DetectRecentCounts, p \in DetectPreviousCounts,
        c \in DetectCorrelations, d \in BOOLEAN, k \in BOOLEAN }

DetectInputs ==
    /\ detect_phase \in Phases
    /\ detect_metrics \in DetectMetrics
    /\ detect_new_phase = Pending
    /\ detect_strength = NoStrength

DetectOff ==
    /\ detect_phase = "birth"
    /\ detect_metrics = MetricsOf(0, 0, 0, FALSE, FALSE)
    /\ detect_new_phase = Pending
    /\ detect_strength = NoStrength

DetectPhaseTransitionStep ==
    /\ detect_new_phase = Pending
    /\ detect_new_phase' = DetectPhaseTransition(detect_phase, detect_metrics)
    /\ UNCHANGED <<detect_phase, detect_metrics, detect_strength>>

CalculateNarrativeStrengthStep ==
    /\ detect_strength = NoStrength
    /\ detect_strength' = CalculateNarrativeStrength(detect_metrics)
    /\ UNCHANGED <<detect_phase, detect_metrics, detect_new_phase>>

(***************************************************************************)
(* main.py: the two callers of track_all_narratives on the event loop      *)
(*                                                                         *)
(* uvicorn runs the application in one process on one event loop.  The     *)
(* monitoring loop is a task of that loop (asyncio.create_task) and the    *)
(* handler of POST /api/track-lifecycles is a coroutine function, so both  *)
(* run on the loop.  The loop runs one task at a time and takes the next   *)
(* one only when the running task suspends at an await or ends.            *)
(***************************************************************************)
Tasks == {"run_continuous_monitoring", "trigger_lifecycle_tracking"}
NoTask == "none"

\* a step of a task; narrative is 0 for a step that is not about one row
Step(op, narrative) == [op |-> op, narrative |-> narrative]

\* the body of the loop over active_narratives for one narrative
NarrativeSteps(id) ==
    <<Step("calculate_narrative_strength", id),
      Step("analyze_narrative_sentiment", id),
      Step("detect_phase_transition", id),
      Step("update_narrative_phase", id)>>

RECURSIVE StepsFrom(_)
StepsFrom(id) ==
    IF id \notin NarrativeIds THEN <<>>
    ELSE NarrativeSteps(id) \o StepsFrom(id + 1)

\* track_all_narratives: the query, the loop in id order, the commit
TrackAllSteps == <<Step("query", 0)>> \o StepsFrom(1) \o <<Step("commit", 0)>>

\* one iteration of run_continuous_monitoring on a tracking minute, and the
\* handler of /api/track-lifecycles
Program(task) ==
    IF task = "run_continuous_monitoring"
    THEN <<Step("refresh_data_sources", 0)>> \o TrackAllSteps
             \o <<Step("generate_signal", 0), Step("sleep", 0)>>
    ELSE TrackAllSteps \o <<Step("response", 0)>>

\* mutant of Suspends: the sentiment analysis of the pass awaits as well
Suspends_InsidePass(step) ==
    step.op \in {"refresh_data_sources", "sleep", "analyze_narrative_sentiment"}

\* the steps at which the coroutine suspends: the awaits of the monitoring
\* loop on I/O and on asyncio.sleep.  track_all_narratives has no await:
\* every call it makes is a plain function call.
Suspends(step) == step.op \in {"refresh_data_sources", "sleep"}

LoopIdle ==
    /\ loop_task = NoTask
    /\ task_pc = [t \in Tasks |-> 0]
    /\ task_ready = [t \in Tasks |-> FALSE]
    /\ passes = [t \in Tasks |-> 0]

\* the timer of the monitoring loop fires, or a request for
\* /api/track-lifecycles arrives: the task waits for the loop
TaskScheduled(task) ==
    /\ task_pc[task] = 0
    /\ ~task_ready[task]
    /\ loop_task # task
    /\ passes[task] < MaxPasses
    /\ task_ready' = [task_ready EXCEPT ![task] = TRUE]
    /\ UNCHANGED <<loop_task, task_pc, passes>>

\* the loop is free and takes a waiting task
LoopRuns(task) ==
    /\ loop_task = NoTask
    /\ task_ready[task]
    /\ loop_task' = task
    /\ task_ready' = [task_ready EXCEPT ![task] = FALSE]
    /\ UNCHANGED <<task_pc, passes>>

\* the running task executes its next step; it leaves the loop when the
\* step suspends it (it waits for the loop again) or when it has ended
TaskSteps(task) ==
    /\ loop_task = task
    /\ LET program == Program(task)
           step == program[task_pc[task] + 1]
           ended == task_pc[task] + 1 = Len(program)
       IN /\ task_pc' = [task_pc EXCEPT ![task] = IF ended THEN 0 ELSE @ + 1]
          /\ passes' = [passes EXCEPT ![task] =
                           IF step.op = "commit" THEN @ + 1 ELSE @]
          /\ loop_task' = IF ended \/ Suspends(step) THEN NoTask ELSE task
          /\ task_ready' = [task_ready EXCEPT ![task] =
                               ~ended /\ Suspends(step)]

(***************************************************************************)
(* orchestrator.py: RateLimiter and MultiModelOrchestrator.analyze_text    *)
(*                                                                         *)
(* Time is in seconds and advances in steps of ClockStep.  The list        *)
(* RateLimiter.requests is kept as the number of entries it holds for      *)
(* each instant.                                                           *)
(***************************************************************************)
GroqRateLimit == 30      \* config.model.groq_rate_limit
WindowSeconds == 60      \* RateLimiter(..., window_seconds=60)
ClockStep == 30

Times == {ClockStep * k : k \in 0..MaxClock}
Callers == 1..MaxCallers
Providers == <<"groq", "gemini", "ollama">>

RECURSIVE SumOver(_, _)
SumOver(f, S) ==
    IF S = {} THEN 0
    ELSE LET x == CHOOSE y \in S : TRUE IN f[x] + SumOver(f, S \ {x})

\* self.requests = [t for t in self.requests if now - t < self.window_seconds]
Pruned(requests, t_now) ==
    [t \in Times |-> IF t_now - t < WindowSeconds THEN requests[t] ELSE 0]

\* can_request: len(self.requests) < self.max_requests, after the pruning
CanRequest(requests, t_now) ==
    SumOver(Pruned(requests, t_now), Times) < GroqRateLimit

\* record_request: self.requests.append(time.time())
RecordRequest(requests, t_now) == [requests EXCEPT ![t_now] = @ + 1]

NotCalling == [pc |-> "idle", tried |-> <<>>]
Awaiting(provider, tried) == [pc |-> provider, tried |-> Append(tried, provider)]
Returned(tried, success, model_used) ==
    [pc |-> "returned", tried |-> tried, success |-> success,
     model_used |-> model_used]

\* the final return of analyze_text: ModelResponse(success=False,
\* model_used="none", error="All models failed")
AllFailed(tried) == Returned(tried, FALSE, "none")

\* analyze_text from the Ollama fallback on
FromOllama(clients, tried) ==
    IF clients.ollama THEN Awaiting("ollama", tried) ELSE AllFailed(tried)

\* analyze_text from the Gemini fallback on
FromGemini(clients, tried) ==
    IF clients.gemini THEN Awaiting("gemini", tried)
    ELSE FromOllama(clients, tried)

\* a caller calls analyze_text; the coroutine runs to its first await.  The
\* limiter is asked (and pruned) only when there is a Groq client; a Groq
\* call is issued when the limiter allows one.
AnalyzeText(c) ==
    /\ text_call[c] = NotCalling
    /\ calls_started < MaxCalls
    /\ calls_started' = calls_started + 1
    /\ IF available.groq
       THEN /\ groq_requests' = Pruned(groq_requests, clock)
            /\ IF CanRequest(groq_requests, clock)
               THEN /\ text_call' = [text_call EXCEPT ![c] =
                                        Awaiting("groq", <<>>)]
                    /\ groq_issued' = [groq_issued EXCEPT ![clock] = @ + 1]
               ELSE /\ text_call' = [text_call EXCEPT ![c] =
                                        FromGemini(available, <<>>)]
                    /\ UNCHANGED groq_issued
       ELSE /\ text_call' = [text_call EXCEPT ![c] = FromGemini(available, <<>>)]
            /\ UNCHANGED <<groq_requests, groq_issued>>
    /\ UNCHANGED <<clock, available>>

\* the await of _groq_text ends: with the response, which is recorded in the
\* limiter and returned, or with an exception, after which Gemini is tried
GroqReturns(c, raised) ==
    /\ text_call[c].pc = "groq"
    /\ IF raised
       THEN /\ text_call' = [text_call EXCEPT ![c] =
                                FromGemini(available, text_call[c].tried)]
            /\ UNCHANGED groq_requests
       ELSE /\ text_call' = [text_call EXCEPT ![c] =
                                Returned(text_call[c].tried, TRUE, "groq")]
            /\ groq_requests' = RecordRequest(groq_requests, clock)
    /\ UNCHANGED <<groq_issued, clock, available, calls_started>>

\* the await of _gemini_text ends.  _gemini_text catches every exception
\* and returns ModelResponse(success=False, model_used="gemini"), and
\* analyze_text returns whatever _gemini_text returned.
GeminiReturns(c, failed) ==
    /\ text_call[c].pc = "gemini"
    /\ text_call' = [text_call EXCEPT ![c] =
                        Returned(text_call[c].tried, ~failed, "gemini")]
    /\ UNCHANGED <<groq_requests, groq_issued, clock, available, calls_started>>

\* the await of _ollama_text ends: with the response, or with an exception,
\* after which "All models failed" is returned
OllamaReturns(c, raised) ==
    /\ text_call[c].pc = "ollama"
    /\ text_call' = [text_call EXCEPT ![c] =
                   IF raised THEN AllFailed(text_call[c].tried)
                   ELSE Returned(text_call[c].tried, TRUE, "ollama")]
    /\ UNCHANGED <<groq_requests, groq_issued, clock, available, calls_started>>

\* the caller has taken the response
CallerContinues(c) ==
    /\ text_call[c].pc = "returned"
    /\ text_call' = [text_call EXCEPT ![c] = NotCalling]
    /\ UNCHANGED <<groq_requests, groq_issued, clock, available, calls_started>>

TimePasses ==
    /\ clock + ClockStep \in Times
    /\ clock' = clock + ClockStep
    /\ UNCHANGED <<groq_requests, groq_issued, available, text_call, calls_started>>

\* an orchestrator with any set of clients, whose limiter holds the requests
\* of the Groq calls answered so far in the current window
ProvidersInit ==
    /\ available \in [groq : BOOLEAN, gemini : BOOLEAN, ollama : BOOLEAN]
    /\ \E answered \in {0, GroqRateLimit - 1} :
           /\ groq_requests = [t \in Times |-> IF t = 0 /\ available.groq
                                                THEN answered ELSE 0]
           /\ groq_issued = groq_requests
    /\ clock = 0
    /\ text_call = [c \in Callers |-> NotCalling]
    /\ calls_started = 0

ProvidersOff ==
    /\ available = [groq |-> FALSE, gemini |-> FALSE, ollama |-> FALSE]
    /\ groq_requests = [t \in Times |-> 0]
    /\ groq_issued = [t \in Times |-> 0]
    /\ clock = 0
    /\ text_call = [c \in Callers |-> NotCalling]
    /\ calls_started = 0

(***************************************************************************)
(* Narrative discovery (backend/narrative/narrative_discovery.py).         *)
(* An article dict is kept by what the pipeline reads of it: whether it    *)
(* has a title and whether the title is spam, the length of its content,   *)
(* how often the text names the keyword "silver", the credibility of its   *)
(* source in hundredths, and its age in hours.  Relevance scores are the   *)
(* code's floats, which are whole numbers here.                            *)
(***************************************************************************)
SilverWeight == 3
MinContentLength == 100
MinArticles == 3
DefaultTopN == 5

RawArticle(title, content, silver, credibility, age) ==
    [title |-> title, content |-> content, silver |-> silver,
     credibility |-> credibility, age |-> age]

\* the article dicts of the collectors: without title, with a short
\* content, with a spam title, and three articles that pass validation
ArticleDicts ==
    {RawArticle("", 100, 1, 50, 0),
     RawArticle("title", 50, 1, 50, 0),
     RawArticle("click here", 100, 1, 50, 0),
     RawArticle("title", 100, 0, 50, 24),
     RawArticle("title", 100, 1, 100, 0),
     RawArticle("title", 200, 4, 100, 24)}

ArticleListsOfLen(n) == [1..n -> ArticleDicts]

\* _validate_articles: the dicts that have a title and a content, whose
\* content has 100 characters and whose title is no spam, in their order
ValidateArticles(dicts) ==
    SelectSeq(dicts, LAMBDA a : /\ a.title # ""
                                /\ a.content > 0
                                /\ a.content >= MinContentLength
                                /\ a.title # "click here")

\* relevance_score of one article: weight * min(count, 3) per keyword,
\* doubled and capped at 100
RelevanceScore(article) == Min(SilverWeight * Min(article.silver, 3) * 2, 100)

\* sorted(scored, key=relevance_score, reverse=True): a stable sort
RECURSIVE SortByRelevance(_)
SortByRelevance(scored) ==
    IF scored = <<>> THEN <<>>
    ELSE LET best == CHOOSE i \in DOMAIN scored :
                         /\ \A j \in DOMAIN scored :
                                scored[j].relevance_score <= scored[i].relevance_score
                         /\ \A j \in 1..(i - 1) :
                                scored[j].relevance_score < scored[i].relevance_score
         IN <<scored[best]>>
                \o SortByRelevance(SubSeq(scored, 1, best - 1)
                                       \o SubSeq(scored, best + 1, Len(scored)))

\* _score_relevance
ScoreRelevance(valid) ==
    SortByRelevance([i \in DOMAIN valid |->
                        [article |-> valid[i],
                         relevance_score |-> RelevanceScore(valid[i])]])

\* 5 * np.percentile(scores, 20) of the scores of a list sorted from high to
\* low: linear interpolation between the neighbours of position (n-1)/5
Percentile20(scored) ==
    LET n == Len(scored)
        ascending == [i \in 1..n |-> scored[n + 1 - i].relevance_score]
        below == (n - 1) \div 5
        rest == (n - 1) % 5
    IN IF rest = 0
       THEN 5 * ascending[below + 1]
       ELSE 5 * ascending[below + 1]
                + rest * (ascending[below + 2] - ascending[below + 1])

\* relevant_articles: the scored articles at or above the 20th percentile
RelevantArticles(scored) ==
    SelectSeq(scored, LAMBDA a : 5 * a.relevance_score >= Percentile20(scored))

\* mutant of Insufficient: two documents are enough
Insufficient_FewerThanTwo(docs) == Len(docs) < MinArticles - 1

\* the test of both aborts: fewer than 3 documents
Insufficient(docs) == Len(docs) < MinArticles

\* what _cluster_articles can return for n articles: HDBSCAN labels every
\* article with a cluster or as noise, and a cluster has at least
\* max(3, n // 10) articles
Clusterings(n) ==
    {<<>>} \cup { <<cluster>> : cluster \in
                    { c \in SUBSET (1..n) : Cardinality(c) >= Max(MinArticles, n \div 10) } }

\* the strength _build_narratives gives a cluster of the relevant articles:
\*   0.4 * avg_relevance + 0.3 * avg_credibility + 0.2 * velocity
\*       + 0.1 * (len(cluster) / len(articles) * 100)
\* where velocity = 100 / (1 + mean(age) / 24), as the quotient num/den
BuilderStrength(cluster, relevant) ==
    LET k == Cardinality(cluster)
        n == Len(relevant)
        sum_relevance == SumOver([i \in DOMAIN relevant |-> relevant[i].relevance_score],
                                 cluster)
        sum_credibility == SumOver([i \in DOMAIN relevant |->
                                       relevant[i].article.credibility], cluster)
        sum_age == SumOver([i \in DOMAIN relevant |-> relevant[i].article.age], cluster)
        days == 24 * k + sum_age
    IN [num |-> (4 * sum_relevance + 3 * sum_credibility) * days * n
                    + 4800 * k * k * n + 100 * k * k * days,
        den |-> 10 * k * days * n]

\* the Narrative _build_narratives makes of one cluster
BuildNarrative(cluster, relevant) ==
    [strength |-> BuilderStrength(cluster, relevant),
     article_count |-> Cardinality(cluster),
     \* its articles published in the last 24h
     recent_count |-> Cardinality({i \in cluster : relevant[i].article.age < 24})]

\* _build_narratives: clusters of one article are skipped
BuildNarratives(clusters, relevant) ==
    LET kept == SelectSeq(clusters, LAMBDA c : Cardinality(c) >= 2)
    IN [i \in DOMAIN kept |-> BuildNarrative(kept[i], relevant)]

\* the metadata dict (processing_time_seconds left out)
Metadata(total, valid, relevant, themes, clusters) ==
    [total_articles_analyzed |-> total, valid_articles |-> valid,
     relevant_articles |-> relevant, themes_extracted |-> themes,
     clusters_formed |-> clusters]

\* what a call of discover_narratives returned, and the steps it ran
Discovered(found, metadata, steps) ==
    [narratives |-> found, metadata |-> metadata, steps |-> steps]

\* discover_narratives(articles, top_n).  themes: how many themes the
\* extraction found; clusters: what the clustering returned.  The ranking
\* keeps the top_n strongest narratives; a clustering of this size yields
\* at most one.
DiscoverNarratives(top_n, themes) ==
    /\ discovery = Unset
    /\ \E valid \in {ValidateArticles(raw_articles)} :
       \E relevant \in {IF Insufficient(valid) THEN <<>>
                        ELSE RelevantArticles(ScoreRelevance(valid))} :
       \E clusters \in Clusterings(Len(relevant)) :
           discovery' =
               IF Insufficient(valid)
               THEN Discovered(<<>>,
                        Metadata(Len(raw_articles), Len(valid), 0, 0, 0),
                        <<"validate">>)
               ELSE IF Insufficient(relevant)
               THEN Discovered(<<>>,
                        Metadata(Len(raw_articles), Len(valid), Len(relevant), 0, 0),
                        <<"validate", "score_relevance">>)
               ELSE LET built == BuildNarratives(clusters, relevant)
                    IN Discovered(SubSeq(built, 1, Min(top_n, Len(built))),
                           Metadata(Len(raw_articles), Len(valid), Len(relevant),
                                    themes, Len(clusters)),
                           <<"validate", "score_relevance", "extract_themes",
                             "cluster_articles", "build_narratives",
                             "rank_narratives">>)
    /\ UNCHANGED <<raw_articles, recomputed>>

\* calculate_narrative_strength of the first narrative the call built, right
\* after the call, from the articles of its cluster.  correlation: the
\* price correlation of the narrative, 0 with fewer than 5 articles.
RecomputeStrength(correlation) ==
    /\ discovery # Unset
    /\ discovery.narratives # <<>>
    /\ recomputed = Unset
    /\ discovery.narratives[1].article_count < 5 => correlation = 0
    /\ recomputed' = [strength |-> CalculateNarrativeStrength(
                          [recent_count |-> discovery.narratives[1].recent_count,
                           price_correlation |-> correlation])]
    /\ UNCHANGED <<raw_articles, discovery>>

DiscoverInit ==
    /\ \E n \in 0..MaxArticles : raw_articles \in ArticleListsOfLen(n)
    /\ discovery = Unset
    /\ recomputed = Unset

DiscoverOff ==
    /\ raw_articles = <<>>
    /\ discovery = Unset
    /\ recomputed = Unset

(***************************************************************************)
(* Trading agent (backend/agent/trading_agent.py).  Confidence is kept in  *)
(* thousandths, position size in hundredths.                               *)
(***************************************************************************)
\* config.trading
HighConvictionStrength == 75
HighConvictionConfidence == 800
LowConfidenceThreshold == 600
MaxPositionSize == 150

Signal(action, confidence, strength, position_size, dominant) ==
    [action |-> action, confidence |-> confidence, strength |-> strength,
     position_size |-> position_size, dominant_narrative |-> dominant]

NoDominant == 0

\* mutant of NoSignal: a moderate confidence without narratives
NoSignal_Moderate == Signal("HOLD", 500, 0, 0, NoDominant)

\* _no_signal
NoSignal == Signal("HOLD", 0, 0, 0, NoDominant)

\* the action and confidence of the decision matrix
DecisionMatrix(phase, strength, conflicts) ==
    LET high_conviction == strength > HighConvictionStrength /\ conflicts = {}
    IN CASE phase = "growth" ->
                IF strength > 70
                THEN [action |-> "BUY",
                      confidence |-> IF conflicts # {}
                                     THEN (650 * 7) \div 10
                                     ELSE IF high_conviction THEN 850 ELSE 650]
                ELSE IF strength > 60
                THEN [action |-> "BUY", confidence |-> 600]
                ELSE [action |-> "HOLD", confidence |-> 500]
         [] phase = "peak" -> [action |-> "HOLD", confidence |-> 750]
         [] phase = "reversal" ->
                IF strength > 50
                THEN [action |-> "SELL", confidence |-> 800]
                ELSE [action |-> "SELL", confidence |-> 900]
         [] phase = "death" -> [action |-> "SELL", confidence |-> 950]
         [] OTHER -> [action |-> "HOLD", confidence |-> 400]

\* calculate_position_size, in hundredths: round(min(base_size, 1.5), 2)
CalculatePositionSize(confidence, strength, conflicts) ==
    LET halved == IF conflicts # {} THEN 5000 ELSE 10000
        lowered == IF confidence < LowConfidenceThreshold
                   THEN (halved * confidence) \div 1000 ELSE halved
        raised == IF /\ confidence > HighConvictionConfidence
                     /\ strength > HighConvictionStrength
                  THEN (lowered * 12) \div 10 ELSE lowered
    IN (Min(raised, MaxPositionSize * 100) + 50) \div 100

\* _make_decision
MakeDecision(dominant, db, conflicts) ==
    LET decision == DecisionMatrix(db[dominant].phase, db[dominant].strength,
                                   conflicts)
    IN Signal(decision.action, decision.confidence, db[dominant].strength,
              CalculatePositionSize(decision.confidence, db[dominant].strength,
                                    conflicts),
              dominant)

\* the rows generate_signal can take as narratives[0]: the query orders the
\* rows that are not in death by strength, and the order of rows of equal
\* strength is the database's choice
Dominants(db) ==
    { id \in NarrativeIds :
        /\ db[id].phase # "death"
        /\ \A other \in NarrativeIds :
               db[other].phase # "death" => db[other].strength <= db[id].strength }

\* TradingAgent._max_signal_history
MaxSignalHistory == 100

\* mutant of TrimmedHistory: the oldest signals are the ones kept
TrimmedHistory_Oldest(history) ==
    IF Len(history) > MaxSignalHistory
    THEN SubSeq(history, 1, MaxSignalHistory)
    ELSE history

\* self.signal_history[-self._max_signal_history:] of a history that has
\* grown past the maximum
TrimmedHistory(history) ==
    IF Len(history) > MaxSignalHistory
    THEN SubSeq(history, Len(history) - MaxSignalHistory + 1, Len(history))
    ELSE history

\* _save_signal: the row is committed and the signal appended to the
\* history; a failed commit is rolled back and logged
SaveSignal(saved, commit_ok) ==
    IF commit_ok
    THEN /\ trading_signals' = Append(trading_signals, saved)
         /\ signal_history' = TrimmedHistory(Append(signal_history, saved))
    ELSE UNCHANGED <<trading_signals, signal_history>>

\* generate_signal, with the row the query returned first
GenerateSignal(dominant, commit_ok) ==
    /\ signal = Unset
    /\ generated' = generated + 1
    /\ IF Dominants(signal_rows) = {}
       THEN /\ signal' = NoSignal
            /\ UNCHANGED <<trading_signals, signal_history>>
       ELSE /\ dominant \in Dominants(signal_rows)
            /\ signal' = MakeDecision(dominant, signal_rows,
                             DetectConflicts(signal_rows[dominant], dominant,
                                             signal_rows))
            /\ SaveSignal(signal', commit_ok)
    /\ UNCHANGED signal_rows

\* one more generate_signal call of a running agent; the signal it decides
\* on is kept as the number of the call
GenerateNextSignal(commit_ok) ==
    /\ generated < MaxSignals
    /\ commit_ok \/ generated - Len(trading_signals) < MaxFailedSaves
    /\ generated' = generated + 1
    /\ signal' = [serial |-> generated + 1]
    /\ SaveSignal(signal', commit_ok)
    /\ UNCHANGED signal_rows

SignalStrengths == {0, 50, 61, 71, 76, 100}
SignalSentiments == {-50 * SentimentScale, 0, 50 * SentimentScale}

AgentInit ==
    /\ signal_rows \in [NarrativeIds ->
           [phase : Phases, strength : SignalStrengths, sentiment : SignalSentiments]]
    /\ signal = Unset
    /\ generated = 0
    /\ trading_signals = <<>>
    /\ signal_history = <<>>

AgentOff ==
    /\ signal_rows = <<>>
    /\ signal = Unset
    /\ generated = 0
    /\ trading_signals = <<>>
    /\ signal_history = <<>>

(***************************************************************************)
(* Stability monitor (backend/agent/stability_monitor.py).  The prices of  *)
(* the window are kept as the number of samples of each price value.       *)
(***************************************************************************)
MinSamples == 10
PriceValues == {100, 101, 103}

SampleCount(samples) == SumOver(samples, PriceValues)
SampleSum(samples) == SumOver([p \in PriceValues |-> p * samples[p]], PriceValues)
SampleSquares(samples) ==
    SumOver([p \in PriceValues |-> p * p * samples[p]], PriceValues)

\* volatility = np.std(price_values) / np.mean(price_values) * 100 compared
\* with a threshold given in tenths of a percent: std/mean*100 < th/10 is
\* 1000000 * (n * sum(x^2) - sum(x)^2) < th^2 * sum(x)^2.  rounds_below: what
\* the floats give when the two sides are equal.
VolatilityBelow(samples, threshold, rounds_below) ==
    LET n == SampleCount(samples)
        left == 1000000 * (n * SampleSquares(samples)
                               - SampleSum(samples) * SampleSum(samples))
        right == threshold * threshold * SampleSum(samples) * SampleSum(samples)
    IN left < right \/ (left = right /\ rounds_below)

\* config.trading thresholds, in tenths of a percent
HighStabilityVolatilityThreshold == 5
MediumStabilityVolatilityThreshold == 10

\* calculate_stability_score (the volatility figures, the range and the
\* streak of stable days left out of the result)
CalculateStabilityScore(samples, rounds_below) ==
    IF SampleCount(samples) < MinSamples
    THEN [score |-> 50, warning |-> "Insufficient data",
          recommendation |-> "Collect more price history"]
    ELSE IF VolatilityBelow(samples, HighStabilityVolatilityThreshold, rounds_below)
    THEN [score |-> 20, risk_level |-> "HIGH",
          recommendation |-> "Reduce position size by 30-50%",
          samples |-> SampleCount(samples)]
    ELSE IF VolatilityBelow(samples, MediumStabilityVolatilityThreshold, rounds_below)
    THEN [score |-> 50, risk_level |-> "MEDIUM",
          recommendation |-> "Monitor for breakout signals",
          samples |-> SampleCount(samples)]
    ELSE [score |-> 80, risk_level |-> "LOW",
          recommendation |-> "Normal market conditions",
          samples |-> SampleCount(samples)]

CalculateStabilityScoreStep(rounds_below) ==
    /\ stability = Unset
    /\ stability' = CalculateStabilityScore(price_samples, rounds_below)
    /\ UNCHANGED <<price_samples, alert>>

\* generate_alert: result["risk_level"] of a result without that key raises
\* KeyError
GenerateAlert(rounds_below) ==
    /\ alert = Unset
    /\ LET scored == CalculateStabilityScore(price_samples, rounds_below)
       IN alert' = IF "risk_level" \notin DOMAIN scored
                   THEN [exception |-> "KeyError"]
                   ELSE IF scored.risk_level = "HIGH"
                   THEN [type |-> "STABILITY_WARNING", severity |-> "HIGH"]
                   ELSE [none |-> TRUE]
    /\ UNCHANGED <<price_samples, stability>>

StabilityInit ==
    /\ price_samples \in [PriceValues -> 0..MaxSamples]
    /\ stability = Unset
    /\ alert = Unset

StabilityOff ==
    /\ price_samples = [p \in PriceValues |-> 0]
    /\ stability = Unset
    /\ alert = Unset

(***************************************************************************)
(* calculate_metrics over a database whose articles carry their age.  An   *)
(* article is [age, score]: hours since published_at and VADER compound    *)
(* score in hundredths.                                                    *)
(***************************************************************************)
Document(age, score) == [age |-> age, score |-> score]

DocumentAges == {0, 24, 25, 48, 49}

\* Article.published_at >= cutoff_24h
RecentDocs(docs) == SelectSeq(docs, LAMBDA a : a.age <= 24)

\* mutant of PreviousDocs: the prior window reaches up to the cutoff itself
PreviousDocs_Overlapping(docs) == SelectSeq(docs, LAMBDA a : a.age >= 24 /\ a.age <= 48)

\* Article.published_at >= cutoff_48h, Article.published_at < cutoff_24h
PreviousDocs(docs) == SelectSeq(docs, LAMBDA a : a.age > 24 /\ a.age <= 48)

\* the articles of the last 48h as the windows the tracker's queries see
Windows(docs) ==
    [recent |-> [i \in DOMAIN RecentDocs(docs) |-> RecentDocs(docs)[i].score],
     previous |-> Len(PreviousDocs(docs))]

\* calculate_metrics(narrative) for the row with primary key id, and the
\* dict _calculate_velocity returned to it
CalculateMetricsStep(id) ==
    /\ metrics_out = Unset
    /\ LET arts == [i \in NarrativeIds |-> Windows(metric_docs[i])]
       IN metrics_out' =
              [narrative_id |-> id,
               velocity |-> CalculateVelocity(arts[id]),
               metrics |-> CalculateMetrics(metric_rows[id], id, metric_rows, arts,
                                            [i \in NarrativeIds |-> 0])]
    /\ UNCHANGED <<metric_rows, metric_docs>>

MetricStrengths == {MinStrengthForConflict - 1, MinStrengthForConflict}
MetricSentiments ==
    {-11 * SentimentScale, -10 * SentimentScale, 10 * SentimentScale,
     11 * SentimentScale}

\* article lists ordered by published_at
DocListsOfLen(n) ==
    { docs \in [1..n -> [age : DocumentAges, score : Scores]] :
        \A i \in 1..(n - 1) : docs[i].age >= docs[i + 1].age }

\* a database whose rows vary and have no articles, or whose first
\* narrative's articles vary
MetricsInit ==
    /\ \/ /\ metric_rows \in [NarrativeIds ->
                 [phase : Phases, strength : MetricStrengths,
                  sentiment : MetricSentiments]]
          /\ metric_docs = [i \in NarrativeIds |-> <<>>]
       \/ /\ metric_rows = [i \in NarrativeIds |->
                 [phase |-> "peak", strength |-> InitialStrength, sentiment |-> 0]]
          /\ \E n \in 1..(2 * MaxMentions) :
                 \E docs \in DocListsOfLen(n) :
                     metric_docs = [i \in NarrativeIds |-> IF i = 1 THEN docs ELSE <<>>]
    /\ metrics_out = Unset

MetricsOff ==
    /\ metric_rows = <<>>
    /\ metric_docs = <<>>
    /\ metrics_out = Unset

(***************************************************************************)
(* _calculate_price_correlation.  The trailing 7 days are kept as the      *)
(* number of the narrative's articles and the price samples of each day.   *)
(* The coefficient r is kept as its sign and the quotient num/den of r^2.  *)
(***************************************************************************)
MinDocuments == 5
MinPrices == 5
MinCommonDays == 3

Days == 1..MaxDays

Coefficient(sign, num, den) == [sign |-> sign, num |-> num, den |-> den]

\* return 0.0
ZeroCorrelation == Coefficient(0, 0, 1)

\* common_days: the days that have an article and a price
CommonDays(mentions, prices) ==
    {d \in Days : mentions[d] > 0 /\ prices[d] # <<>>}

\* mutant of TooFewCommonDays: two common days are enough
TooFewCommonDays_BelowTwo(common) == Cardinality(common) < MinCommonDays - 1

\* len(common_days) < 3
TooFewCommonDays(common) == Cardinality(common) < MinCommonDays

\* np.corrcoef(mentions_series, price_series)[0, 1] over the common days,
\* the price of a day being the mean of its samples (times 6 here, which
\* leaves r as it is); nan, the value for a constant series, becomes 0.0
Corrcoef(mentions, prices, common) ==
    LET n == Cardinality(common)
        price == [d \in Days |-> IF prices[d] = <<>> THEN 0
                                 ELSE (6 * SumSeq(prices[d])) \div Len(prices[d])]
        sum_m == SumOver(mentions, common)
        sum_p == SumOver(price, common)
        sum_mm == SumOver([d \in Days |-> mentions[d] * mentions[d]], common)
        sum_pp == SumOver([d \in Days |-> price[d] * price[d]], common)
        sum_mp == SumOver([d \in Days |-> mentions[d] * price[d]], common)
        covariance == n * sum_mp - sum_m * sum_p
        variances == (n * sum_mm - sum_m * sum_m) * (n * sum_pp - sum_p * sum_p)
    IN IF variances = 0
       THEN ZeroCorrelation
       ELSE Coefficient(IF covariance > 0 THEN 1 ELSE IF covariance < 0 THEN -1 ELSE 0,
                        covariance * covariance, variances)

\* _calculate_price_correlation: the value returned and whether the
\* coefficient was computed
CalculatePriceCorrelation(mentions, prices) ==
    LET common == CommonDays(mentions, prices)
    IN IF \/ SumOver(mentions, Days) < MinDocuments
          \/ SumOver([d \in Days |-> Len(prices[d])], Days) < MinPrices
          \/ TooFewCommonDays(common)
       THEN [value |-> ZeroCorrelation, computed |-> FALSE]
       ELSE [value |-> Corrcoef(mentions, prices, common), computed |-> TRUE]

CalculatePriceCorrelationStep ==
    /\ correlation_out = Unset
    /\ correlation_out' = CalculatePriceCorrelation(week_mentions, week_prices)
    /\ UNCHANGED <<week_mentions, week_prices>>

DayPrices == {<<>>, <<100>>, <<100, 104>>, <<110>>, <<100, 104, 105>>}

CorrelationInit ==
    /\ week_mentions \in [Days -> 0..3]
    /\ week_prices \in [Days -> DayPrices]
    /\ correlation_out = Unset

CorrelationOff ==
    /\ week_mentions = [d \in Days |-> 0]
    /\ week_prices = [d \in Days |-> <<>>]
    /\ correlation_out = Unset

(***************************************************************************)
(* analyze_narrative_multi task by task: the coroutine creates one          *)
(* agent.analyze coroutine per role, asyncio.gather schedules them all as  *)
(* tasks and the coroutine is suspended until gather's future is done.     *)
(***************************************************************************)
\* the dict HybridEngine hands to analyze_narrative_multi
NarrativeData ==
    [narrative_id |-> 1, narrative_title |-> "Mine strike",
     historical_volume_75pct |-> 150, recent_peak_volume |-> 200,
     evidence |-> <<[source_type |-> "news", text |-> "strike extended"]>>]

\* narrative_data.get(key, default)
Get(data, key, default) == IF key \in DOMAIN data THEN data[key] ELSE default

\* _build_analysis_prompt: the text is made of the analyst's specialty and
\* of these four keys of narrative_data
BuildAnalysisPrompt(role, data) ==
    [specialty |-> AgentNames[role],
     narrative_title |-> Get(data, "narrative_title", "Unknown"),
     historical_volume_75pct |-> Get(data, "historical_volume_75pct", 0),
     recent_peak_volume |-> Get(data, "recent_peak_volume", 0),
     evidence |-> SubSeq(Get(data, "evidence", <<>>), 1,
                         Min(10, Len(Get(data, "evidence", <<>>))))]

\* the arguments of orchestrator_call_llm in BaseAnalyst.analyze
AnalyzeInput(role, data) ==
    [prompt |-> BuildAnalysisPrompt(role, data),
     system |-> AgentNames[role],
     temperature |-> 30]

\* _build_debate_context: one line per vote
BuildDebateContext(votes) ==
    [i \in DOMAIN votes |->
        <<votes[i].agent_name, votes[i].phase_vote, votes[i].strength_vote,
          votes[i].confidence, votes[i].reasoning>>]

\* prev_vote and debate_prompt of _round_2_debate
DebatePrompt(role, votes) ==
    LET mine == SelectSeq(votes, LAMBDA v : v.agent_name = AgentNames[role])
    IN [previous_round_votes |-> BuildDebateContext(votes),
        your_previous_vote |->
            IF mine = <<>> THEN <<"N/A", "N/A">>
            ELSE <<mine[1].phase_vote, mine[1].strength_vote>>]

\* {**narrative_data, "debate_context": debate_prompt}
DebateData(role, votes) ==
    [key \in DOMAIN NarrativeData \cup {"debate_context"} |->
        IF key = "debate_context" THEN DebatePrompt(role, votes)
        ELSE NarrativeData[key]]

\* the dict a role's agent.analyze is called with in a round
RoundData(round, role, votes) ==
    IF round = 1 THEN NarrativeData ELSE DebateData(role, votes)

RoundOf(at) == IF at = "round1" THEN 1 ELSE 2

RoundResponses == {PeakResponse, UnknownResponse}

\* mutant of GatherDone: gather without return_exceptions, which is done as
\* soon as one task has raised
GatherDone_FirstException(tasks) ==
    \/ \A r \in Roles : tasks[r] \in {"returned", "raised"}
    \/ \E r \in Roles : tasks[r] = "raised"

\* asyncio.gather(*tasks, return_exceptions=True) is done when every task is
GatherDone(tasks) == \A r \in Roles : tasks[r] \in {"returned", "raised"}

RoundsIdle ==
    /\ gather_pc = "idle"
    /\ role_pc = [r \in Roles |-> "none"]
    /\ role_outcome = [r \in Roles |-> Unset]
    /\ sent_inputs = [round \in 1..2 |-> [r \in Roles |-> Unset]]
    /\ gathered_round1 = <<>>
    /\ levels = <<>>
    /\ rounds_result = Unset

\* analyze_narrative_multi runs up to the await of Round 1's gather: the five
\* coroutines are created and scheduled
BeginRound1 ==
    /\ gather_pc = "idle"
    /\ gather_pc' = "round1"
    /\ role_pc' = [r \in Roles |-> "scheduled"]
    /\ UNCHANGED <<role_outcome, sent_inputs, gathered_round1, levels,
                   rounds_result>>

\* a role's task runs analyze up to the await of the LLM call
TaskSends(role) ==
    /\ gather_pc \in {"round1", "round2"}
    /\ role_pc[role] = "scheduled"
    /\ role_pc' = [role_pc EXCEPT ![role] = "awaiting"]
    /\ sent_inputs' =
          [sent_inputs EXCEPT ![RoundOf(gather_pc)][role] =
              AnalyzeInput(role, RoundData(RoundOf(gather_pc), role,
                                           gathered_round1))]
    /\ UNCHANGED <<gather_pc, role_outcome, gathered_round1, levels,
                   rounds_result>>

\* the LLM call returns and the task ends with the parsed vote
TaskReturns(role, lines) ==
    /\ role_pc[role] = "awaiting"
    /\ role_pc' = [role_pc EXCEPT ![role] = "returned"]
    /\ role_outcome' = [role_outcome EXCEPT ![role] = PanelOutcomes[role][lines]]
    /\ UNCHANGED <<gather_pc, sent_inputs, gathered_round1, levels,
                   rounds_result>>

\* the task ends with an exception
TaskRaises(role) ==
    /\ role_pc[role] = "awaiting"
    /\ role_pc' = [role_pc EXCEPT ![role] = "raised"]
    /\ role_outcome' = [role_outcome EXCEPT ![role] = Raised]
    /\ UNCHANGED <<gather_pc, sent_inputs, gathered_round1, levels,
                   rounds_result>>

\* the outcomes gather hands back, in the order of self.agents; a task that
\* is not done has none
Gathered == [r \in Roles |-> IF role_outcome[r] = Unset THEN Raised
                             ELSE role_outcome[r]]

\* gather's future is done and the coroutine resumes.  After Round 1 the
\* consensus level is computed and the coroutine either runs on into
\* _round_2_debate up to its gather, or synthesizes; after Round 2 it
\* synthesizes.
GatherCompletes(rounds_below) ==
    /\ gather_pc \in {"round1", "round2"}
    /\ GatherDone(role_pc)
    /\ LET valid_votes == ValidVotes(Gathered)
       IN IF gather_pc = "round1"
          THEN /\ gathered_round1' = valid_votes
               /\ levels' = Append(levels, CalculateConsensus(valid_votes))
               /\ IF NeedsDebate(valid_votes)
                  THEN /\ gather_pc' = "round2"
                       /\ role_pc' = [r \in Roles |-> "scheduled"]
                       /\ role_outcome' = [r \in Roles |-> Unset]
                       /\ UNCHANGED rounds_result
                  ELSE /\ gather_pc' = "done"
                       /\ rounds_result' =
                              SynthesizeConsensus(valid_votes, rounds_below)
                       /\ UNCHANGED <<role_pc, role_outcome>>
          ELSE /\ gather_pc' = "done"
               /\ rounds_result' = SynthesizeConsensus(valid_votes, rounds_below)
               /\ UNCHANGED <<role_pc, role_outcome, gathered_round1, levels>>
    /\ UNCHANGED sent_inputs

(***************************************************************************)
(* narrative/resource_manager.py.  Times are minutes; a volatility is kept *)
(* in tenths of a percent.                                                 *)
(***************************************************************************)
\* config.data
HighVolatilityInterval == 10
MediumVolatilityInterval == 30
LowVolatilityInterval == 120

HighVolatility == 50
MediumVolatility == 20
DefaultInterval == 30

\* what calculate_volatility returns (10 is its default of 1.0)
Volatilities == {10, 20, 21, 50, 51}

\* decide_scraping_strategy
DecideScrapingStrategy(volatility) ==
    IF volatility > HighVolatility
    THEN [mode |-> "aggressive",
          news_interval_minutes |-> HighVolatilityInterval,
          reddit_interval_minutes |-> 5,
          price_interval_minutes |-> 1]
    ELSE IF volatility > MediumVolatility
    THEN [mode |-> "balanced",
          news_interval_minutes |-> MediumVolatilityInterval,
          reddit_interval_minutes |-> 15,
          price_interval_minutes |-> 5]
    ELSE [mode |-> "conservative",
          news_interval_minutes |-> LowVolatilityInterval,
          reddit_interval_minutes |-> 60,
          price_interval_minutes |-> 15]

\* the sources refresh_data_sources handles, in its order
RefreshedSources == <<"news", "price">>

\* f"{source}_interval_minutes"
IntervalKey(source) ==
    IF source = "news" THEN "news_interval_minutes"
    ELSE IF source = "price" THEN "price_interval_minutes"
    ELSE IF source = "reddit" THEN "reddit_interval_minutes"
    ELSE "interval_minutes"

\* strategy.get(interval_key, 30)
RequiredInterval(source, strategy) ==
    Get(strategy, IntervalKey(source), DefaultInterval)

\* mutant of IsSourceStale: a source is stale only after more than the
\* interval
IsSourceStale_StrictlyOlder(source, strategy, last, t) ==
    IF last[source] = Unset THEN TRUE
    ELSE t - last[source].at > RequiredInterval(source, strategy)

\* is_source_stale
IsSourceStale(source, strategy, last, t) ==
    IF last[source] = Unset THEN TRUE
    ELSE t - last[source].at >= RequiredInterval(source, strategy)

\* the sources refresh_data_sources fetches: those stale, or all when forced
Fetched(force, strategy, last, t) ==
    SelectSeq(RefreshedSources,
              LAMBDA source : force \/ IsSourceStale(source, strategy, last, t))

\* refresh_data_sources: the strategy is decided, every source that is stale
\* (or every source, when forced) is fetched and its refresh time is set
\* before the fetches are awaited; the dict returned, without the counts
RefreshDataSources(force, volatility) ==
    /\ refresh_calls < MaxRefreshes
    /\ refresh_calls' = refresh_calls + 1
    /\ LET strategy == DecideScrapingStrategy(volatility)
           refreshed == Fetched(force, strategy, last_refresh, refresh_clock)
       IN /\ last_refresh' =
                 [source \in DOMAIN last_refresh |->
                     IF \E i \in DOMAIN refreshed : refreshed[i] = source
                     THEN [at |-> refresh_clock]
                     ELSE last_refresh[source]]
          /\ refresh_out' = [refreshed |-> refreshed, strategy |-> strategy,
                             force |-> force]
    /\ UNCHANGED <<refresh_clock, ticks>>

TickMinutes == {1, 4, 5, 10, 120}

MinutesPass(minutes) ==
    /\ ticks < MaxTicks
    /\ ticks' = ticks + 1
    /\ refresh_clock' = refresh_clock + minutes
    /\ UNCHANGED <<last_refresh, refresh_calls, refresh_out>>

RefreshInit ==
    /\ refresh_clock = 0
    /\ ticks = 0
    /\ last_refresh = [source \in {"news", "price"} |-> Unset]
    /\ refresh_calls = 0
    /\ refresh_out = Unset

RefreshOff == RefreshInit

ConsensusOff ==
    /\ final_votes = <<>>
    /\ consensus_level = Unset
    /\ result = Unset

Init ==
    LifecycleInit /\ PanelIdle /\ ConsensusOff /\ DetectOff /\ ParseOff /\ LoopIdle
    /\ ProvidersOff /\ DiscoverOff /\ AgentOff /\ StabilityOff /\ MetricsOff
        /\ CorrelationOff /\ RefreshOff /\ RoundsIdle

Next ==
    /\ \/ \E orm_accepts \in BOOLEAN : TrackAllNarratives(orm_accepts)
       \/ \E id \in NarrativeIds : HybridBegin(id)
       \/ \E id \in NarrativeIds :
              /\ hybrid[id] # Idle
              /\ \E votes \in HybridPanelVotes :
                     \E touched, blend_below \in BOOLEAN :
                         \E synth_below \in StrengthRoundings(votes) :
                             HybridFinish(id, votes, touched, synth_below,
                                          blend_below)
       \/ \E id \in NarrativeIds : \E score \in Scores : PublishArticle(id, score)
       \/ DayPasses
       \/ \E id \in NarrativeIds : \E c \in CorrelationValues :
              PriceCorrelationChanges(id, c)
    /\ UNCHANGED <<cvars, pvars, dvars, avars, evars, rvars, kvars, xvars>>

Spec == Init /\ [][Next]_vars

InitDetect ==
    DetectInputs /\ PanelIdle /\ ConsensusOff /\ LifecycleOff /\ ParseOff /\ LoopIdle
    /\ ProvidersOff /\ DiscoverOff /\ AgentOff /\ StabilityOff /\ MetricsOff
        /\ CorrelationOff /\ RefreshOff /\ RoundsIdle

NextDetect ==
    /\ DetectPhaseTransitionStep \/ CalculateNarrativeStrengthStep
    /\ UNCHANGED <<cvars, pvars, lvars, avars, evars, rvars, kvars, xvars>>

SpecDetect == InitDetect /\ [][NextDetect]_vars

InitPanel ==
    PanelIdle /\ ConsensusOff /\ LifecycleOff /\ DetectOff /\ ParseOff /\ LoopIdle
    /\ ProvidersOff /\ DiscoverOff /\ AgentOff /\ StabilityOff /\ MetricsOff
        /\ CorrelationOff /\ RefreshOff /\ RoundsIdle

NextPanel ==
    /\ \/ StartAnalysis
       \/ /\ pc = "round1"
          /\ \E g \in GatherOutcomes : \E b \in StrengthRoundings(ValidVotes(g)) :
                 Round1Complete(g, b)
       \/ /\ pc = "round2"
          /\ \E g \in GatherOutcomes : \E b \in StrengthRoundings(ValidVotes(g)) :
                 Round2Complete(g, b)
       \/ ReturnResult
    /\ UNCHANGED <<cvars, lvars, dvars, avars, evars, rvars, kvars, xvars>>

SpecPanel == InitPanel /\ [][NextPanel]_vars

InitConsensus ==
    ConsensusInputs /\ PanelIdle /\ LifecycleOff /\ DetectOff /\ ParseOff /\ LoopIdle
    /\ ProvidersOff /\ DiscoverOff /\ AgentOff /\ StabilityOff /\ MetricsOff
        /\ CorrelationOff /\ RefreshOff /\ RoundsIdle

SpecConsensus == InitConsensus /\ [][NextConsensus]_vars

InitParse ==
    ParseInputs /\ PanelIdle /\ ConsensusOff /\ LifecycleOff /\ DetectOff /\ LoopIdle
    /\ ProvidersOff /\ DiscoverOff /\ AgentOff /\ StabilityOff /\ MetricsOff
        /\ CorrelationOff /\ RefreshOff /\ RoundsIdle

NextParse ==
    /\ \E role \in Roles : ParseResponseStep(AgentNames[role])
    /\ UNCHANGED <<cvars, pvars, lvars, dvars, evars, rvars, kvars, xvars>>

SpecParse == InitParse /\ [][NextParse]_vars

InitLoop ==
    LoopIdle /\ PanelIdle /\ ConsensusOff /\ LifecycleOff /\ DetectOff /\ ParseOff
    /\ ProvidersOff /\ DiscoverOff /\ AgentOff /\ StabilityOff /\ MetricsOff
        /\ CorrelationOff /\ RefreshOff /\ RoundsIdle

NextLoop ==
    /\ \E task \in Tasks : TaskScheduled(task) \/ LoopRuns(task) \/ TaskSteps(task)
    /\ UNCHANGED <<cvars, pvars, lvars, dvars, avars, rvars, kvars, xvars>>

SpecLoop == InitLoop /\ [][NextLoop]_vars

InitProviders ==
    ProvidersInit /\ LoopIdle /\ PanelIdle /\ ConsensusOff /\ LifecycleOff
        /\ DetectOff /\ ParseOff /\ DiscoverOff /\ AgentOff /\ StabilityOff /\ MetricsOff
        /\ CorrelationOff /\ RefreshOff /\ RoundsIdle

NextProviders ==
    /\ \/ \E c \in Callers : AnalyzeText(c)
       \/ \E c \in Callers : \E raised \in BOOLEAN : GroqReturns(c, raised)
       \/ \E c \in Callers : \E failed \in BOOLEAN : GeminiReturns(c, failed)
       \/ \E c \in Callers : \E raised \in BOOLEAN : OllamaReturns(c, raised)
       \/ \E c \in Callers : CallerContinues(c)
       \/ TimePasses
    /\ UNCHANGED <<cvars, pvars, lvars, dvars, avars, evars, kvars, xvars>>

SpecProviders == InitProviders /\ [][NextProviders]_vars

InitDiscover ==
    DiscoverInit /\ LoopIdle /\ PanelIdle /\ ConsensusOff /\ LifecycleOff
        /\ DetectOff /\ ParseOff /\ ProvidersOff /\ AgentOff /\ StabilityOff /\ MetricsOff
        /\ CorrelationOff /\ RefreshOff /\ RoundsIdle

NextDiscover ==
    /\ \/ \E top_n \in {1, DefaultTopN} : \E themes \in {4, 8} :
              DiscoverNarratives(top_n, themes)
       \/ \E correlation \in CorrelationValues : RecomputeStrength(correlation)
    /\ UNCHANGED <<cvars, pvars, lvars, dvars, avars, evars, rvars, xvars>>

SpecDiscover == InitDiscover /\ [][NextDiscover]_vars

\* every section of bvars at rest
BaseOff ==
    LoopIdle /\ PanelIdle /\ ConsensusOff /\ LifecycleOff /\ DetectOff /\ ParseOff
        /\ ProvidersOff /\ DiscoverOff

InitAgent ==
    AgentInit /\ BaseOff /\ StabilityOff /\ MetricsOff
        /\ CorrelationOff /\ RefreshOff /\ RoundsIdle

NextAgent ==
    /\ \E dominant \in NarrativeIds : \E commit_ok \in BOOLEAN :
           GenerateSignal(dominant, commit_ok)
    /\ UNCHANGED <<bvars, svars, mvars, qvars, fvars, hvars>>

SpecAgent == InitAgent /\ [][NextAgent]_vars

InitStability ==
    StabilityInit /\ BaseOff /\ AgentOff /\ MetricsOff
        /\ CorrelationOff /\ RefreshOff /\ RoundsIdle

NextStability ==
    /\ \/ \E rounds_below \in BOOLEAN : CalculateStabilityScoreStep(rounds_below)
       \/ \E rounds_below \in BOOLEAN : GenerateAlert(rounds_below)
    /\ UNCHANGED <<bvars, gvars, mvars, qvars, fvars, hvars>>

SpecStability == InitStability /\ [][NextStability]_vars

InitMetrics ==
    MetricsInit /\ BaseOff /\ AgentOff /\ StabilityOff
        /\ CorrelationOff /\ RefreshOff /\ RoundsIdle

NextMetrics ==
    /\ \E id \in NarrativeIds : CalculateMetricsStep(id)
    /\ UNCHANGED <<bvars, gvars, svars, qvars, fvars, hvars>>

SpecMetrics == InitMetrics /\ [][NextMetrics]_vars

InitCorrelation ==
    CorrelationInit /\ BaseOff /\ AgentOff /\ StabilityOff /\ MetricsOff
        /\ RoundsIdle /\ RefreshOff

NextCorrelation ==
    /\ CalculatePriceCorrelationStep
    /\ UNCHANGED <<bvars, gvars, svars, mvars, fvars, hvars>>

SpecCorrelation == InitCorrelation /\ [][NextCorrelation]_vars

InitRounds ==
    RoundsIdle /\ BaseOff /\ AgentOff /\ StabilityOff /\ MetricsOff
        /\ CorrelationOff /\ RefreshOff

NextRounds ==
    /\ \/ BeginRound1
       \/ \E role \in Roles : TaskSends(role)
       \/ \E role \in Roles : \E lines \in RoundResponses :
              TaskReturns(role, lines)
       \/ \E role \in Roles : TaskRaises(role)
       \/ /\ gather_pc \in {"round1", "round2"}
          /\ GatherDone(role_pc)
          /\ \E rounds_below \in StrengthRoundings(ValidVotes(Gathered)) :
                 GatherCompletes(rounds_below)
    /\ UNCHANGED <<bvars, gvars, svars, mvars, qvars, hvars>>

SpecRounds == InitRounds /\ [][NextRounds]_vars

InitRefresh ==
    RefreshInit /\ BaseOff /\ AgentOff /\ StabilityOff /\ MetricsOff
        /\ CorrelationOff /\ RoundsIdle

NextRefresh ==
    /\ \/ \E force \in BOOLEAN : \E volatility \in Volatilities :
              RefreshDataSources(force, volatility)
       \/ \E minutes \in TickMinutes : MinutesPass(minutes)
    /\ UNCHANGED <<bvars, gvars, svars, mvars, qvars, fvars>>

SpecRefresh == InitRefresh /\ [][NextRefresh]_vars

InitHistory ==
    AgentOff /\ BaseOff /\ StabilityOff /\ MetricsOff /\ CorrelationOff
        /\ RoundsIdle /\ RefreshOff

NextHistory ==
    /\ \E commit_ok \in BOOLEAN : GenerateNextSignal(commit_ok)
    /\ UNCHANGED <<bvars, svars, mvars, qvars, fvars, hvars>>

SpecHistory == InitHistory /\ [][NextHistory]_vars

(***************************************************************************)
(* Claims                                                                  *)
(***************************************************************************)
\* the last round's votes: Round 2's when the debate ran, else Round 1's
LastRoundVotes == IF rounds_run = 2 THEN round2_votes ELSE round1_votes

\* the share of the votes cast for every phase is below 60%
Below60(votes) ==
    \/ votes = <<>>
    \/ \A p \in VotedPhases(votes) : 10 * Count(votes, p) < 6 * Len(votes)

\* C7: Round 2 (debate) is run if and only if the Round-1 consensus level is
\* strictly below 0.6; at most one debate round is run, so no role is
\* evaluated more than twice per analysis; and the synthesis is made on the
\* last round's votes even when they still agree on less than 60%.
C7_DebateIffLowConsensus ==
    /\ rounds_run \in 0..2
    /\ \A r \in Roles : evaluations[r] = rounds_run /\ evaluations[r] <= 2
    /\ pc = "round2" => rounds_run = 1 /\ Below60(round1_votes)
    /\ pc = "done" => (rounds_run = 2 <=> Below60(round1_votes))
    /\ pc = "done" =>
           \E b \in BOOLEAN : panel_result = SynthesizeConsensus(LastRoundVotes, b)

\* C7 witness: an analysis that debated and synthesized although the Round-2
\* votes still agree on less than 60%
C7_Witness ==
    /\ pc = "done"
    /\ rounds_run = 2
    /\ Len(round2_votes) = 5
    /\ Below60(round2_votes)
    /\ panel_result.num_agents = 5

\* the number of votes cast for the most-voted phase
PluralityCount(votes) ==
    CHOOSE c \in 0..Len(votes) :
        /\ \A p \in VotedPhases(votes) : Count(votes, p) <= c
        /\ votes # <<>> => \E p \in VotedPhases(votes) : Count(votes, p) = c

RECURSIVE TotalConfidence(_)
TotalConfidence(votes) ==
    IF votes = <<>> THEN 0
    ELSE Head(votes).confidence + TotalConfidence(Tail(votes))

\* the summed confidence of the votes cast for a phase
AggregateConfidence(votes, phase) ==
    TotalConfidence(SelectSeq(votes, LAMBDA v : v.phase_vote = phase))

\* C8: over N >= 1 votes the consensus level is (votes for the most-voted
\* phase) / N, and it lies in [1/N, 1].
C8_ConsensusLevelRange ==
    (consensus_level # Unset /\ Len(final_votes) >= 1) =>
        LET N == Len(final_votes)
        IN /\ consensus_level.den = N
           /\ consensus_level.num = PluralityCount(final_votes)
           /\ consensus_level.num * N >= consensus_level.den
           /\ consensus_level.num <= consensus_level.den

\* C8 witness: a consensus level computed over three votes of which two agree
C8_Witness ==
    /\ consensus_level # Unset
    /\ Len(final_votes) = 3
    /\ consensus_level.num = 2
    /\ consensus_level.den = 3

\* C9 as stated: the final phase is the plurality phase of the votes, and
\* among phases tied on vote count it has the highest aggregate confidence.
C9_PluralityPhase ==
    (result # Unset /\ final_votes # <<>>) =>
        LET winner == result.consensus_lifecycle_phase
        IN /\ Count(final_votes, winner) = PluralityCount(final_votes)
           /\ \A q \in VotedPhases(final_votes) :
                  Count(final_votes, q) = Count(final_votes, winner) =>
                      AggregateConfidence(final_votes, q)
                          <= AggregateConfidence(final_votes, winner)

\* C9 amended: the final phase is a voted phase whose aggregate confidence
\* (the summed confidence of its voters) is the greatest, whether or not it
\* has the most votes; when all votes carry the same positive confidence it
\* is a plurality phase.
C9_ConfidenceWeightedPhase ==
    (result # Unset /\ final_votes # <<>>) =>
        LET winner == result.consensus_lifecycle_phase
        IN /\ winner \in VotedPhases(final_votes)
           /\ \A q \in VotedPhases(final_votes) :
                  AggregateConfidence(final_votes, q)
                      <= AggregateConfidence(final_votes, winner)
           /\ (\A i \in DOMAIN final_votes :
                   /\ final_votes[i].confidence = final_votes[1].confidence
                   /\ final_votes[i].confidence > 0)
                  => Count(final_votes, winner) = PluralityCount(final_votes)

\* C9 witness: a synthesis in which a confident minority outweighs the
\* plurality phase
C9_Witness ==
    /\ result # Unset
    /\ Len(final_votes) = 3
    /\ Count(final_votes, result.consensus_lifecycle_phase) = 1
    /\ PluralityCount(final_votes) = 2

\* C10 as stated: overall_confidence = mean(role confidences) multiplied by
\* the consensus level of the final votes.
C10_MeanTimesConsensus ==
    (result # Unset /\ final_votes # <<>>) =>
        LET N == Len(final_votes)
            oc == result.overall_confidence
        IN oc.num * N * N
               = TotalConfidence(final_votes) * PluralityCount(final_votes) * oc.den

\* C10 amended: overall_confidence = mean(role confidences) of the final
\* votes, with no consensus-level factor; it lies in [0, 1] and is never
\* below mean * consensus level.  With no votes it is 0.5.
C10_MeanConfidence ==
    result # Unset =>
        LET N == Len(final_votes)
            oc == result.overall_confidence
        IN /\ N >= 1 => oc.num * N = TotalConfidence(final_votes) * oc.den
           /\ N >= 1 => oc.num * N * N
                   >= TotalConfidence(final_votes) * PluralityCount(final_votes) * oc.den
           /\ N = 0 => oc.num * 2 = 100 * oc.den
           /\ oc.den > 0
           /\ 0 <= oc.num /\ oc.num <= 100 * oc.den

\* C10 witness: a synthesis over split votes with a positive mean confidence
C10_Witness ==
    /\ result # Unset
    /\ Len(final_votes) = 3
    /\ PluralityCount(final_votes) = 2
    /\ result.overall_confidence.num = 150

(***************************************************************************)
(* Claims on the lifecycle                                                 *)
(***************************************************************************)
PhaseRank(phase) ==
    CASE phase = "birth" -> 1
      [] phase = "growth" -> 2
      [] phase = "peak" -> 3
      [] phase = "reversal" -> 4
      [] phase = "death" -> 5

TrackingPass == \E orm_accepts \in BOOLEAN : TrackAllNarratives(orm_accepts)

\* C1: DEATH is terminal for the tracker: detect_phase_transition proposes
\* no phase for a narrative in DEATH, whatever the metrics, and a narrative
\* that is in DEATH when track_all_narratives starts is in DEATH when it ends.
C1_DeathIsTerminal ==
    [][ /\ \A metrics \in DetectMetrics :
               DetectPhaseTransition("death", metrics) = NoPhase
        /\ TrackingPass =>
               \A id \in NarrativeIds :
                   narratives[id].phase = "death" => narratives'[id].phase = "death"
      ]_vars

\* a tracking pass has run (it logged a transition of the other narrative)
\* over a narrative that was in DEATH from the start and was never written
C1_Witness ==
    \E id \in NarrativeIds : \E other \in NarrativeIds \ {id} :
        /\ narratives[id].phase = "death"
        /\ narratives[id].death_date = InitialTime
        /\ narratives[id].last_updated = InitialTime
        /\ phase_history[other] # <<>>

\* C2: over tracking passes and hybrid write-backs the stored phase of a
\* narrative only moves forward in BIRTH < GROWTH < PEAK < REVERSAL < DEATH;
\* in particular it never leaves DEATH.
C2_PhaseOnlyMovesForward ==
    [][ \A id \in NarrativeIds :
            PhaseRank(narratives'[id].phase) >= PhaseRank(narratives[id].phase)
      ]_vars

\* C3: in every reachable state a narrative's death_date is set if and
\* only if its phase is DEATH.
C3_DeathDateIffDeath ==
    \A id \in NarrativeIds :
        (narratives[id].death_date # NoDate) <=> (narratives[id].phase = "death")

\* C4: whatever wrote them (a tracking pass with calculate_narrative_strength,
\* a hybrid write-back), every stored strength is an integer in 0..100 and
\* every stored sentiment is in [-1, 1].
C4_StrengthAndSentimentInRange ==
    \A id \in NarrativeIds :
        /\ narratives[id].strength \in 0..100
        /\ narratives[id].sentiment >= (-100) * SentimentScale
        /\ narratives[id].sentiment <= 100 * SentimentScale

\* one narrative carries the strength of a hybrid write-back and the phase
\* the panel voted, the other the strength and sentiment of a tracking pass
C4_Witness ==
    \E id \in NarrativeIds : \E other \in NarrativeIds \ {id} :
        /\ narratives[id].strength >= 60
        /\ narratives[id].phase = "peak"
        /\ narratives[other].strength = 10
        /\ narratives[other].sentiment = 0
        /\ narratives[other].last_updated > InitialTime

\* C5: detect_phase_transition moves a BIRTH narrative to GROWTH exactly
\* when velocity_increase is strictly above 0.5: a ratio of 0.6 moves it,
\* ratios of 0.3 and of exactly 0.5 do not.
C5_BirthToGrowthAboveHalf ==
    (detect_phase = "birth" /\ detect_new_phase # Pending) =>
        LET ratio == detect_metrics.velocity_increase
        IN /\ detect_new_phase = "growth" <=> 2 * ratio.num > ratio.den
           /\ detect_new_phase # "growth" => detect_new_phase = NoPhase
           /\ 10 * ratio.num = 6 * ratio.den => detect_new_phase = "growth"
           /\ 10 * ratio.num = 3 * ratio.den => detect_new_phase = NoPhase
           /\ 2 * ratio.num = ratio.den => detect_new_phase = NoPhase

\* a BIRTH narrative whose ratio is exactly 0.5 (3 articles after 2) stayed
C5_Witness ==
    /\ detect_phase = "birth"
    /\ detect_metrics.velocity_increase = [num |-> 1, den |-> 2]
    /\ detect_new_phase = NoPhase

\* C6: a tracking pass moves a narrative in REVERSAL that has no article in
\* the trailing 48h to DEATH, and leaves one that has an article in REVERSAL.
C6_ReversalDiesWithoutMentions ==
    [][ TrackingPass =>
            \A id \in NarrativeIds :
                narratives[id].phase = "reversal" =>
                    narratives'[id].phase =
                        IF Len(articles[id].recent) + articles[id].previous = 0
                        THEN "death" ELSE "reversal"
      ]_vars

\* C11: for every non-empty vote list the final strength of
\* _synthesize_consensus is the confidence-weighted mean of the strength
\* votes, sum(strength_i * confidence_i) / sum(confidence_i), truncated to an
\* integer, and it is in [0,100], also when every vote has confidence 0.
C11_WeightedMeanStrength ==
    (result # Unset /\ final_votes # <<>>) =>
        /\ result.consensus_strength_score \in 0..100
        /\ SumConfidence(final_votes) > 0 =>
               result.consensus_strength_score =
                   SumStrengthTimesConfidence(final_votes)
                       \div SumConfidence(final_votes)

\* C12: minority_opinions holds exactly one entry for every role whose
\* final-round phase vote differs from the winning phase and none for a role
\* that agrees, each entry carrying that role's phase and reasoning
\* unchanged; its length is N minus the number of votes for the winning phase.
C12_MinorityOpinions ==
    (result # Unset /\ final_votes # <<>>) =>
        LET winning == result.consensus_lifecycle_phase
            minority == result.minority_opinions
            EntriesOf(i) == {j \in DOMAIN minority :
                                minority[j].agent = final_votes[i].agent_name}
        IN /\ Len(minority) = Len(final_votes) - Count(final_votes, winning)
           /\ \A i \in DOMAIN final_votes :
                 IF final_votes[i].phase_vote = winning
                 THEN EntriesOf(i) = {}
                 ELSE /\ Cardinality(EntriesOf(i)) = 1
                      /\ \A j \in EntriesOf(i) :
                            /\ minority[j].reasoning = final_votes[i].reasoning
                            /\ minority[j].phase = final_votes[i].phase_vote
           /\ \A j \in DOMAIN minority :
                 \E i \in DOMAIN final_votes :
                     minority[j].agent = final_votes[i].agent_name

\* C12 witness: a synthesis over three votes in which one confident role
\* wins and the two other roles are listed as the minority
C12_Witness ==
    /\ result # Unset
    /\ Len(final_votes) = 3
    /\ Len(result.minority_opinions) = 2
    /\ result.minority_opinions[1].reasoning = final_votes[1].reasoning
    /\ result.minority_opinions[2].reasoning = final_votes[2].reasoning
    /\ final_votes[3].phase_vote = result.consensus_lifecycle_phase

\* a call of analyze_narrative_hybrid for the narrative returns its result
HybridReturns(id) ==
    /\ hybrid[id] # Idle
    /\ hybrid'[id] = Idle
    /\ "analysis_method" \in DOMAIN hybrid_result'

\* the confidence the panel reported to the call that returned
PanelConfidence(hybrid_res) == OverallConfidence(hybrid_res.agent_votes)

BelowThreshold(confidence) == confidence.num < 75 * confidence.den

\* the phase the tracker's metrics give the narrative: the transition that
\* detect_phase_transition proposes, or else the phase it is in
MetricPhase(call) ==
    IF call.deterministic_phase # NoPhase
    THEN call.deterministic_phase ELSE call.narrative.phase

\* C13: a result of analyze_narrative_hybrid is tagged "metrics-fallback"
\* exactly when the panel's confidence is below 0.75 (0.75 itself trusts
\* the panel); in the fallback its phase is the metric-derived phase and its
\* confidence is 0.65, otherwise phase and confidence are the panel's; a
\* result whose confidence exceeds 0.75 is never tagged "metrics-fallback".
C13_FallbackIffLowConfidence ==
    [][ \A id \in NarrativeIds : HybridReturns(id) =>
            LET res == hybrid_result'
                panel == PanelConfidence(res)
            IN /\ res.analysis_method = "metrics-fallback"
                      <=> BelowThreshold(panel)
               /\ BelowThreshold(panel) =>
                      /\ res.consensus_lifecycle_phase = MetricPhase(hybrid[id])
                      /\ res.overall_confidence = [num |-> 65, den |-> 1]
               /\ ~BelowThreshold(panel) =>
                      /\ res.consensus_lifecycle_phase
                             = ConsensusPhase(res.agent_votes)
                      /\ res.overall_confidence = panel
               /\ res.overall_confidence.num > 75 * res.overall_confidence.den
                      => res.analysis_method # "metrics-fallback"
      ]_vars

\* C13 witness: a call returned the panel's phase and confidence for a panel
\* whose confidence is exactly 0.75
C13_Witness ==
    /\ "analysis_method" \in DOMAIN hybrid_result
    /\ PanelConfidence(hybrid_result).num
           = 75 * PanelConfidence(hybrid_result).den
    /\ hybrid_result.analysis_method = "multi-agent"
    /\ hybrid_result.consensus_lifecycle_phase = "birth"
    /\ narratives[hybrid_result.narrative_id].phase = "birth"

\* C14 as stated: when the panel's confidence is at least 0.75 the strength
\* of the result, and the strength written back to the narrative, equal the
\* panel's consensus strength.
C14_PanelStrengthTrusted ==
    [][ \A id \in NarrativeIds :
            (HybridReturns(id) /\ ~BelowThreshold(PanelConfidence(hybrid_result'))) =>
                \E synth_below \in BOOLEAN :
                    /\ hybrid_result'.consensus_strength_score
                           = WeightedStrength(hybrid_result'.agent_votes, synth_below)
                    /\ narratives'[id].strength
                           = WeightedStrength(hybrid_result'.agent_votes, synth_below)
      ]_vars

\* C14 amended: whatever the panel's confidence, the strength of the result
\* is the truncated blend 0.6 * (panel's consensus strength) + 0.4 * (metric
\* strength) computed in floating point, and the write-back stores that
\* value in the narrative (a value equal to the one the call loaded is not
\* written again).
C14_BlendedStrength ==
    [][ \A id \in NarrativeIds : HybridReturns(id) =>
            LET res == hybrid_result'
                call == hybrid[id]
            IN /\ \E synth_below, blend_below \in BOOLEAN :
                      res.consensus_strength_score =
                          IntOfFloat(6 * WeightedStrength(res.agent_votes, synth_below)
                                         + 4 * call.strength_metrics,
                                     10, blend_below)
               /\ narratives'[id].strength =
                      IF res.consensus_strength_score # call.narrative.strength
                      THEN res.consensus_strength_score
                      ELSE narratives[id].strength
      ]_vars

\* C14 witness: a call returned for a confident panel whose strength is 100,
\* and the strength of the result, stored in the narrative, is well below it
C14_Witness ==
    /\ "analysis_method" \in DOMAIN hybrid_result
    /\ hybrid_result.analysis_method = "multi-agent"
    /\ hybrid_result.agent_votes[1].strength_vote = 100
    /\ hybrid_result.consensus_strength_score < 90
    /\ narratives[hybrid_result.narrative_id].strength
           = hybrid_result.consensus_strength_score

\* the votes of a panel whose five calls all came back unparsable
UnparsablePanelVotes ==
    { [r \in Roles |-> ParseResponse(AgentNames[r], lines)] :
        lines \in {EmptyContent, CallLlmError} }

\* the substitute vote of the failure handling: low confidence, no phase
NeutralVote(vote) == vote.confidence = 30 /\ vote.phase_vote = "unknown"

\* C15: a hybrid analysis over a panel whose 5 roles all returned unparsable
\* output returns a result that carries 5 neutral votes and is tagged
\* "metrics-fallback".
C15_AllUnparsablePanel ==
    [][ \A id \in NarrativeIds :
            (/\ hybrid[id] # Idle
             /\ hybrid'[id] = Idle
             /\ "exception" \notin DOMAIN hybrid_result'
             /\ hybrid_result'.agent_votes \in UnparsablePanelVotes) =>
                /\ Len(hybrid_result'.agent_votes) = 5
                /\ hybrid_result'.analysis_method = "metrics-fallback"
                /\ \A i \in DOMAIN hybrid_result'.agent_votes :
                       NeutralVote(hybrid_result'.agent_votes[i])
      ]_vars

\* C16: the vote recorded for a role whose call failed or whose response is
\* unparsable is the neutral vote: confidence 0.3, phase "unknown", and a
\* reasoning that notes the failure; the role still returns a vote.
C16_NeutralVoteOnFailure ==
    (parse_vote # Unset /\ Unparsable(parse_lines)) =>
        /\ NeutralVote(parse_vote)
        /\ parse_vote.reasoning = DefaultReasoning
        /\ parse_vote.agent_name \in {AgentNames[r] : r \in Roles}

\* C17: when no role's evaluation raised, the result of
\* analyze_narrative_multi holds exactly one vote per role of the panel:
\* 5 votes, pairwise distinct agent names, num_agents = 5, with or without
\* the debate round.
C17_OneVotePerRole ==
    (/\ pc = "done"
     /\ Len(round1_votes) = 5
     /\ rounds_run = 2 => Len(round2_votes) = 5) =>
        LET votes == panel_result.agent_votes
        IN /\ Len(votes) = 5
           /\ panel_result.num_agents = 5
           /\ \A i, j \in DOMAIN votes :
                 votes[i].agent_name = votes[j].agent_name => i = j
           /\ \A r \in Roles :
                 \E i \in DOMAIN votes : votes[i].agent_name = AgentNames[r]
           /\ {votes[i].agent_name : i \in DOMAIN votes}
                 = {"fundamental", "sentiment", "technical", "risk", "macro"}

\* C17 witness: a debate was run, no role raised in either round, and the
\* result holds the five Round-2 votes
C17_Witness ==
    /\ pc = "done"
    /\ rounds_run = 2
    /\ Len(round1_votes) = 5
    /\ Len(round2_votes) = 5
    /\ panel_result.num_agents = 5
    /\ panel_result.agent_votes[5].agent_name = "macro"

\* the task has begun the steps of its pass on the narrative and has not
\* finished them
InPassOn(task, id) ==
    /\ task_pc[task] > 0
    /\ Program(task)[task_pc[task]].narrative = id
    /\ Program(task)[task_pc[task]].op # "update_narrative_phase"

\* C18: tracking passes over the same narrative do not interleave: while the
\* monitoring loop or the /api/track-lifecycles handler is between the first
\* and the last step of its pass on a narrative, the other one executes no
\* step of a pass on that narrative.
C18_PassesDoNotInterleave ==
    /\ [](\A id \in NarrativeIds : \A t1, t2 \in Tasks :
             (InPassOn(t1, id) /\ InPassOn(t2, id)) => t1 = t2)
    /\ [][ \A id \in NarrativeIds : \A t1, t2 \in Tasks :
              (/\ InPassOn(t1, id)
               /\ task_pc'[t2] # task_pc[t2]
               /\ task_pc'[t2] > 0
               /\ Program(t2)[task_pc'[t2]].narrative = id) => t1 = t2
        ]_vars

\* C18 witness: a request for a pass is waiting for the loop while the
\* monitoring loop is in the middle of its pass on a narrative
C18_Witness ==
    /\ loop_task = "run_continuous_monitoring"
    /\ InPassOn("run_continuous_monitoring", 1)
    /\ task_ready["trigger_lifecycle_tracking"]
    /\ passes["trigger_lifecycle_tracking"] = 1

\* the Groq calls issued in the window of WindowSeconds that begins at t
IssuedInWindow(t) ==
    SumOver(groq_issued, {u \in Times : t <= u /\ u < t + WindowSeconds})

\* C19: in any window of 60 s the number of Groq calls that analyze_text
\* issues is at most max_requests (30), also when callers call it
\* concurrently and when Groq calls fail.
C19_GroqCallsWithinLimit ==
    \A t \in Times : IssuedInWindow(t) <= GroqRateLimit

\* position of a provider in the order Groq, Gemini, Ollama
ProviderRank(provider) ==
    CHOOSE i \in DOMAIN Providers : Providers[i] = provider

\* C20: a call of analyze_text tries the providers in the order Groq,
\* Gemini, Ollama, each at most once, falling through to the next one when
\* one is exhausted, unconfigured or fails; it returns a response of the
\* provider that succeeded, and it returns a failure response only when
\* every available later provider has been tried and has failed.
C20_ProvidersFallThrough ==
    \A c \in Callers : text_call[c].pc = "returned" =>
        LET tried == text_call[c].tried
        IN /\ \A i, j \in DOMAIN tried :
                 i < j => ProviderRank(tried[i]) < ProviderRank(tried[j])
           /\ text_call[c].success =>
                 /\ tried # <<>>
                 /\ text_call[c].model_used = tried[Len(tried)]
           /\ ~text_call[c].success =>
                 /\ available.gemini => \E i \in DOMAIN tried : tried[i] = "gemini"
                 /\ available.ollama => \E i \in DOMAIN tried : tried[i] = "ollama"

\* C21: in every reachable state the stored phase of every narrative is one
\* of birth, growth, peak, reversal, death, whatever phase the panel of a
\* hybrid analysis voted for, free text included.
C21_StoredPhaseIsLifecyclePhase ==
    \A id \in NarrativeIds : narratives[id].phase \in Phases

\* a hybrid analysis whose panel agreed on a phase that is no lifecycle
\* phase has ended, and the stored phases are lifecycle phases
C21_Witness ==
    /\ "exception" \in DOMAIN hybrid_result
    /\ hybrid_result.exception = "IntegrityError"
    /\ \A id \in NarrativeIds : narratives[id].phase \in Phases

\* the call of discover_narratives aborted: fewer than 3 documents passed
\* the validation, or fewer than 3 passed the relevance filter
FewerThanThree(dicts) ==
    LET valid == ValidateArticles(dicts)
    IN \/ Len(valid) < 3
       \/ Len(RelevantArticles(ScoreRelevance(valid))) < 3

\* C22: with fewer than 3 documents left by the validation or by the
\* relevance filter, discover_narratives returns an empty narrative list and
\* the metadata, and runs no theme extraction, clustering or narrative
\* building.
C22_AbortsBelowThreeDocuments ==
    (discovery # Unset /\ FewerThanThree(raw_articles)) =>
        /\ discovery.narratives = <<>>
        /\ discovery.metadata.total_articles_analyzed = Len(raw_articles)
        /\ discovery.metadata.valid_articles = Len(ValidateArticles(raw_articles))
        /\ discovery.metadata.themes_extracted = 0
        /\ discovery.metadata.clusters_formed = 0
        /\ \A i \in DOMAIN discovery.steps :
               discovery.steps[i] \notin
                   {"extract_themes", "cluster_articles", "build_narratives"}

\* a call given three valid documents, of which the relevance filter kept
\* two, has returned
C22_Witness ==
    /\ discovery # Unset
    /\ discovery.metadata.valid_articles = 3
    /\ discovery.metadata.relevant_articles = 2
    /\ discovery.narratives = <<>>

\* C23: the strength a narrative is built with and the strength
\* calculate_narrative_strength computes for it right afterwards, from the
\* same articles, differ by no more than the rounding of the latter (1).
C23_StrengthRoundTrip ==
    recomputed # Unset =>
        LET built == discovery.narratives[1].strength
        IN /\ built.num <= (recomputed.strength + 1) * built.den
           /\ built.num >= (recomputed.strength - 1) * built.den

\* C24: the signal generate_signal returns has an action of BUY, SELL, HOLD,
\* a confidence in [0.0, 1.0] and a strength in [0, 100]; without a narrative
\* outside death it is HOLD with confidence 0.0, strength 0 and position
\* size 0.0.
C24_SignalInRange ==
    signal # Unset =>
        /\ signal.action \in {"BUY", "SELL", "HOLD"}
        /\ signal.confidence >= 0 /\ signal.confidence <= 1000
        /\ signal.strength >= 0 /\ signal.strength <= 100
        /\ (\A id \in NarrativeIds : signal_rows[id].phase = "death") =>
               /\ signal.action = "HOLD"
               /\ signal.confidence = 0
               /\ signal.strength = 0
               /\ signal.position_size = 0

\* generate_signal has returned with every narrative in death
C24_Witness ==
    /\ signal # Unset
    /\ \A id \in NarrativeIds : signal_rows[id].phase = "death"

\* C25: the result of calculate_stability_score has a score in [0, 100] and
\* a risk_level of HIGH, MEDIUM or LOW for every price history, the one with
\* fewer than 10 samples included, and generate_alert does not raise.
C25_StabilityResultComplete ==
    /\ stability # Unset =>
           /\ stability.score >= 0 /\ stability.score <= 100
           /\ "risk_level" \in DOMAIN stability
           /\ stability.risk_level \in {"HIGH", "MEDIUM", "LOW"}
    /\ alert # Unset => "exception" \notin DOMAIN alert

\* C26: detect_phase_transition moves a GROWTH narrative to PEAK exactly when
\* price_correlation is strictly above 0.8, and a PEAK narrative to REVERSAL
\* exactly when the sentiment declines or a conflicting narrative was
\* detected; otherwise it proposes no transition.
C26_MiddlePhaseTransitions ==
    detect_new_phase # Pending =>
        /\ detect_phase = "growth" =>
               detect_new_phase = IF detect_metrics.price_correlation > 80
                                  THEN "peak" ELSE NoPhase
        /\ detect_phase = "peak" =>
               detect_new_phase =
                   IF \/ detect_metrics.sentiment_decline
                      \/ detect_metrics.conflicting_narratives_detected
                   THEN "reversal" ELSE NoPhase

\* a GROWTH narrative whose correlation is exactly 0.8 stayed in GROWTH
C26_Witness ==
    /\ detect_phase = "growth"
    /\ detect_metrics.price_correlation = 80
    /\ detect_new_phase = NoPhase

\* the scores of the narrative's articles of the trailing 24h and of the 24h
\* before, by age
TrailingScores(docs) ==
    LET window == SelectSeq(docs, LAMBDA a : a.age <= 24)
    IN [i \in DOMAIN window |-> window[i].score]

PriorScores(docs) ==
    LET window == SelectSeq(docs, LAMBDA a : a.age > 24 /\ a.age <= 48)
    IN [i \in DOMAIN window |-> window[i].score]

\* C27: sentiment_decline is true exactly when the mean sentiment of the
\* articles of the trailing 24h is lower, by more than 0.1, than the mean
\* sentiment of the articles of the 24h before.
C27_DeclineAgainstPriorDay ==
    metrics_out # Unset =>
        LET trailing == TrailingScores(metric_docs[metrics_out.narrative_id])
            prior == PriorScores(metric_docs[metrics_out.narrative_id])
        IN metrics_out.metrics.sentiment_decline <=>
               /\ trailing # <<>>
               /\ prior # <<>>
               /\ SumSeq(trailing) * Len(prior) - SumSeq(prior) * Len(trailing)
                      < (-10) * Len(trailing) * Len(prior)

\* the rows that conflict with the row of narrative n: another narrative in
\* growth or peak, at or above the floor, of opposite sign beyond +-0.1
ConflictingRows(n, db) ==
    { m \in NarrativeIds \ {n} :
        /\ db[m].phase \in {"growth", "peak"}
        /\ db[m].strength >= 40
        /\ \/ /\ db[n].sentiment > 10 * SentimentScale
              /\ db[m].sentiment < (-10) * SentimentScale
           \/ /\ db[n].sentiment < (-10) * SentimentScale
              /\ db[m].sentiment > 10 * SentimentScale }

\* C28: conflicting_narratives_detected of narrative n is true exactly when
\* another narrative in GROWTH or PEAK with strength >= 40 has a sentiment of
\* the opposite sign beyond the dead-zone of 0.1; a narrative whose own
\* sentiment is within [-0.1, 0.1] has no conflict, and _are_opposing is
\* symmetric.
C28_ConflictDetection ==
    metrics_out # Unset =>
        LET n == metrics_out.narrative_id
        IN /\ metrics_out.metrics.conflicting_narratives_detected
                  <=> ConflictingRows(n, metric_rows) # {}
           /\ (/\ metric_rows[n].sentiment >= (-10) * SentimentScale
               /\ metric_rows[n].sentiment <= 10 * SentimentScale) =>
                  ~metrics_out.metrics.conflicting_narratives_detected
           /\ \A a, b \in NarrativeIds :
                  AreOpposing(metric_rows[a], metric_rows[b])
                      <=> AreOpposing(metric_rows[b], metric_rows[a])

\* the metrics of a narrative at sentiment +0.11 were calculated next to a
\* narrative in growth of strength 40 at -0.11, and a conflict was detected
C28_Witness ==
    /\ metrics_out # Unset
    /\ metrics_out.narrative_id = 1
    /\ metric_rows[2].phase = "growth"
    /\ metric_rows[2].strength = 40
    /\ metric_rows[2].sentiment = (-11) * SentimentScale
    /\ metric_rows[1].sentiment = 11 * SentimentScale
    /\ metrics_out.metrics.conflicting_narratives_detected

\* C29: increase_ratio is (recent - previous) / previous when the 24h before
\* the trailing 24h have previous > 0 articles, 1.0 when they have none and
\* the trailing 24h have one at least, and 0.0 when both have none; no
\* article is counted in both windows.
C29_VelocityIncreaseRatio ==
    metrics_out # Unset =>
        LET docs == metric_docs[metrics_out.narrative_id]
            recent == Len(TrailingScores(docs))
            previous == Len(PriorScores(docs))
            ratio == metrics_out.velocity.increase_ratio
        IN /\ metrics_out.velocity.recent_count = recent
           /\ metrics_out.velocity.previous_count = previous
           /\ recent + previous = Len(SelectSeq(docs, LAMBDA a : a.age <= 48))
           /\ previous > 0 => ratio.num * previous = (recent - previous) * ratio.den
           /\ (previous = 0 /\ recent > 0) => ratio.num = ratio.den
           /\ (previous = 0 /\ recent = 0) => ratio.num = 0
           /\ metrics_out.metrics.velocity_increase = ratio

\* the ratio was calculated for a narrative with an article exactly 24h old
\* and an older one
C29_Witness ==
    /\ metrics_out # Unset
    /\ metrics_out.velocity.recent_count = 1
    /\ metrics_out.velocity.previous_count = 1
    /\ \E i \in DOMAIN metric_docs[metrics_out.narrative_id] :
           metric_docs[metrics_out.narrative_id][i].age = 24

\* the days of the week on which the narrative has an article and a price
\* sample exists
OverlappingDays ==
    Cardinality({d \in Days : week_mentions[d] > 0 /\ Len(week_prices[d]) > 0})

\* C30: the price correlation is computed as a correlation only when the
\* narrative has at least 5 articles in the trailing 7 days and at least 3
\* days with both articles and prices; in every other case it is 0.0; its
\* value is always in [-1, 1].
C30_PriceCorrelationDefaults ==
    correlation_out # Unset =>
        LET enough == /\ SumOver(week_mentions, Days) >= 5
                      /\ OverlappingDays >= 3
        IN /\ correlation_out.computed => enough
           /\ ~enough => correlation_out.value.sign = 0 /\ correlation_out.value.num = 0
           /\ correlation_out.value.den > 0
           /\ correlation_out.value.num <= correlation_out.value.den
           /\ correlation_out.value.sign \in {-1, 0, 1}

\* the coefficient of a week with 3 overlapping days and 5 articles was
\* computed and is not 0.0
C30_Witness ==
    /\ correlation_out # Unset
    /\ correlation_out.computed
    /\ SumOver(week_mentions, Days) = 5
    /\ OverlappingDays = 3
    /\ correlation_out.value.sign = -1

\* the roles other than role that have a vote among the valid votes of
\* Round 1
OthersVoted(role) ==
    \E i \in DOMAIN gathered_round1 :
        gathered_round1[i].agent_name # AgentNames[role]

\* C31: in Round 2 the input on which a role is re-evaluated (the prompt and
\* system text actually sent for it) differs from its Round-1 input whenever
\* other roles voted in Round 1.
C31_DebateInputCarriesVotes ==
    \A role \in Roles :
        (/\ sent_inputs[1][role] # Unset
         /\ sent_inputs[2][role] # Unset
         /\ OthersVoted(role))
            => sent_inputs[2][role] # sent_inputs[1][role]

\* the roles whose task of the round has ended with a vote
ReturnedRoles == {r \in Roles : role_pc[r] = "returned"}

\* C32: within a round every role's evaluation is started before any is
\* awaited, a consensus (the level after Round 1, the synthesis at the end)
\* is computed only when every role's evaluation of the round has returned
\* a vote or raised, and the votes it is computed from are those of all the
\* roles that returned one, whatever the other roles raised.
C32_FanOutFanIn ==
    /\ [](gather_pc \in {"round1", "round2"} =>
              \A r \in Roles : role_pc[r] # "none")
    /\ [][(levels' # levels \/ rounds_result' # rounds_result) =>
              /\ \A r \in Roles : role_pc[r] \in {"returned", "raised"}
              /\ LET votes == IF gather_pc = "round1" THEN gathered_round1'
                              ELSE rounds_result'.agent_votes
                 IN /\ Len(votes) = Cardinality(ReturnedRoles)
                    /\ \A r \in ReturnedRoles :
                           \E i \in DOMAIN votes : votes[i] = role_outcome[r]]_vars

\* a panel whose debate round ended with one role's evaluation raised and
\* the other four votes synthesized
C32_Witness ==
    /\ gather_pc = "done"
    /\ Len(levels) = 1
    /\ sent_inputs[2][1] # Unset
    /\ Cardinality({r \in Roles : role_pc[r] = "raised"}) = 1
    /\ rounds_result # Unset
    /\ "num_agents" \in DOMAIN rounds_result
    /\ rounds_result.num_agents = 4

\* a call of analyze_narrative_hybrid for id ends in this step
HybridEnds(id) == hybrid[id] # Idle /\ hybrid'[id] = Idle

C35_PassSkipsDeadNarratives ==
    [][ TrackingPass =>
            \A id \in NarrativeIds :
                narratives[id].phase = "death" =>
                    /\ narratives'[id] = narratives[id]
                    /\ phase_history'[id] = phase_history[id]
      ]_vars

\* a pass refreshed the strength of a live narrative while the other one,
\* in DEATH from the start and with a new article of its own, kept its row
C35_Witness ==
    \E id \in NarrativeIds : \E other \in NarrativeIds \ {id} :
        /\ narratives[id].phase = "death"
        /\ narratives[id].strength = InitialStrength
        /\ narratives[id].last_updated = InitialTime
        /\ articles[id].recent # <<>>
        /\ phase_history[id] = <<>>
        /\ narratives[other].last_updated > InitialTime
        /\ narratives[other].strength # InitialStrength

\* the lines of a response that the CONFIDENCE branch of the loop handles
ConfidenceLines(lines) ==
    {i \in DOMAIN lines :
        LET upper_line == UpperText(Strip(lines[i]))
        IN /\ Contains(upper_line, ConfidenceTag)
           /\ ~Contains(upper_line, PhaseTag)
           /\ ~Contains(upper_line, StrengthTag)}

\* the value a CONFIDENCE line states, in hundredths: a percentage p stands
\* for p/100 and a decimal d for d
WrittenConfidence(line) ==
    LET value == Without(Strip(AfterColon(line)), "%")
        dots == {i \in DOMAIN value : value[i] = "."}
    IN IF dots = {} THEN IntOfDigits(value)
       ELSE LET dot == CHOOSE i \in dots : \A j \in dots : i <= j
                fraction == SubSeq(value, dot + 1, Len(value))
            IN 100 * IntOfDigits(SubSeq(value, 1, dot - 1))
                   + (IF Len(fraction) = 1 THEN 10 * IntOfDigits(fraction)
                      ELSE IntOfDigits(SubSeq(fraction, 1, 2)))

\* C36: a CONFIDENCE value written as a percentage p in 0..100 is parsed to
\* p/100 and one written as a decimal d in 0..1 to d; for every response the
\* vote has confidence in [0.0, 1.0] and strength_vote in [0, 100].
C36_ConfidenceFormats ==
    parse_vote # Unset =>
        /\ parse_vote.confidence \in 0..100
        /\ parse_vote.strength_vote \in 0..100
        /\ ConfidenceLines(parse_lines) # {} =>
               LET last == CHOOSE i \in ConfidenceLines(parse_lines) :
                               \A j \in ConfidenceLines(parse_lines) : j <= i
               IN parse_vote.confidence = WrittenConfidence(parse_lines[last])

\* C37: the explanation of a hybrid result names the decision path of its
\* analysis_method: 'AI consensus' exactly when the method is the panel's,
\* 'Metrics fallback' exactly when it is "metrics-fallback", for every panel
\* confidence.
C37_ExplanationNamesMethod ==
    (hybrid_result # Unset /\ "explanation" \in DOMAIN hybrid_result) =>
        /\ hybrid_result.explanation.analysis_method
               = "AI consensus (high confidence)"
             <=> hybrid_result.analysis_method = "multi-agent"
        /\ hybrid_result.explanation.analysis_method
               = "Metrics fallback (low agent agreement)"
             <=> hybrid_result.analysis_method = "metrics-fallback"

\* a call of refresh_data_sources without force ends in this step
UnforcedRefresh ==
    /\ refresh_calls' = refresh_calls + 1
    /\ ~refresh_out'.force

\* the sources the call of this step fetched
FetchedNow ==
    {refresh_out'.refreshed[i] : i \in DOMAIN refresh_out'.refreshed}

\* C38: a source is stale if and only if it was never refreshed or at least
\* the strategy's interval for it has elapsed since its last refresh; an
\* unforced refresh_data_sources fetches a source only when it is stale and
\* marks it refreshed, so that right after the call the source is not stale
\* and the refresh is at least one interval after the one before it.
C38_StaleIffIntervalElapsed ==
    /\ [](\A source \in DOMAIN last_refresh : \A volatility \in Volatilities :
             LET strategy == DecideScrapingStrategy(volatility)
                 interval == IF source = "news" THEN strategy.news_interval_minutes
                             ELSE strategy.price_interval_minutes
             IN IsSourceStale(source, strategy, last_refresh, refresh_clock)
                    <=> \/ last_refresh[source] = Unset
                        \/ refresh_clock - last_refresh[source].at >= interval)
    /\ [][UnforcedRefresh =>
             \A source \in DOMAIN last_refresh :
                 LET strategy == refresh_out'.strategy
                     interval == IF source = "news" THEN strategy.news_interval_minutes
                                 ELSE strategy.price_interval_minutes
                     was_stale == \/ last_refresh[source] = Unset
                                  \/ refresh_clock - last_refresh[source].at >= interval
                 IN /\ source \in FetchedNow <=> was_stale
                    /\ source \in FetchedNow =>
                           /\ last_refresh'[source] = [at |-> refresh_clock]
                           /\ ~IsSourceStale(source, strategy, last_refresh',
                                             refresh_clock')
                    /\ source \notin FetchedNow =>
                           last_refresh'[source] = last_refresh[source]
       ]_vars

\* an unforced refresh fetched the news exactly 10 minutes, the aggressive
\* interval, after the refresh before it, and left the prices alone
C38_Witness ==
    /\ refresh_out # Unset
    /\ ~refresh_out.force
    /\ refresh_out.strategy.mode = "aggressive"
    /\ refresh_calls = 3
    /\ refresh_clock = 10
    /\ refresh_out.refreshed = <<"news">>
    /\ last_refresh["news"] = [at |-> 10]
    /\ last_refresh["price"] = [at |-> 10]

\* the last n elements of a sequence
LastOf(log, n) == SubSeq(log, Len(log) - n + 1, Len(log))

\* C39: signal_history holds at most 100 signals, and they are the most
\* recently saved ones in the order they were saved; a signal whose save
\* failed is not added.
C39_HistoryIsLastHundredSaved ==
    /\ [](/\ Len(signal_history) <= 100
          /\ signal_history
                 = LastOf(trading_signals, Min(100, Len(trading_signals))))
    /\ [][(generated' = generated + 1 /\ trading_signals' = trading_signals)
              => signal_history' = signal_history]_vars

\* 102 signals were generated, the save of one failed, and the history
\* holds the last 100 of the 101 saved
C39_Witness ==
    /\ generated = 102
    /\ Len(trading_signals) = 101
    /\ Len(signal_history) = 100
    /\ signal_history[100] = [serial |-> 102]
    /\ signal_history[1] = trading_signals[2]

====
